---------------------------- MODULE Spec2Model ----------------------------
(***************************************************************************)
(* Model of the finance tracker REST server (src/server/index.js): the     *)
(* cache helpers with their two backends, the token and role gates, the    *)
(* auth routes, the transaction list and write handlers and the            *)
(* cache-aside analytics handlers; and of the browser client: the auth     *)
(* provider (src/contexts/AuthContext.tsx), the page that renders by its   *)
(* state (src/app/page.tsx) and the transactions view                      *)
(* (src/components/users/UsersTab.tsx).                                    *)
(*                                                                         *)
(* Conventions                                                             *)
(*  - A request is handled in steps; every database or cache round trip    *)
(*    of a handler is one step, and steps of different requests            *)
(*    interleave freely.  The middleware chain of a route runs in the      *)
(*    step of the handler's first round trip.                              *)
(*  - Emails are strings; names, descriptions, categories and search       *)
(*    strings are sequences of characters; a password is its text with     *)
(*    its length; bcrypt is a one-way wrapper of the password.  A token    *)
(*    is given by its kind (none, bad signature, expired, valid) and the   *)
(*    user id it names.                                                    *)
(*  - Transaction ids are numbered in the order of the inserts, and the    *)
(*    created_at column of a row is the number of its insert.  updated_at  *)
(*    is not kept.  The table refuses a row that breaks its CHECK and      *)
(*    VARCHAR constraints.                                                 *)
(*  - A text is a sequence of characters or of runs of letters that no     *)
(*    operation splits; lengths count the elements of the sequence.        *)
(*  - The rate limiters are those of the express-rate-limit library, kept  *)
(*    as one count per limiter for one client (hits).  Outside the         *)
(*    specification of the limiters the verdict of a limiter is an input   *)
(*    of the request and hits stays as it is.                              *)
(*  - The role column of the users table is written by no route; it is     *)
(*    changed only by a step of the environment, on the database itself.   *)
(*  - In the browser every await is a step of its own, and the response    *)
(*    that ends it is an input, or the response of the modelled server.    *)
(*  - Cache keys and patterns are sequences of tokens; the ":" separators  *)
(*    of the source are implicit between tokens.  User ids are UUIDs of    *)
(*    one fixed length, so an id is never a proper substring of another    *)
(*    and substring tests on keys are tests on contiguous token runs.      *)
(*  - Time is in milliseconds (Date.now()).  Dates of transactions are     *)
(*    month numbers; CURRENT_DATE stays in month CurrentMonth.             *)
(*  - Amounts are in cents.                                                *)
(*  - Request bodies are parsed JSON objects and ids are well formed.     *)
(*  - The database is assumed reachable (no query throws); the cache       *)
(*    backend may throw on any command.                                    *)
(*  - The state of the connection to the key-value server (redis.status)   *)
(*    is an input of the environment: the client library is not part of    *)
(*    the source, so the connection may become ready, close and come back, *)
(*    or raise "error" (redis = null, for good) between any two steps.     *)
(*  - Cached payloads are numbers, strings and arrays of them, on which    *)
(*    JSON.parse after JSON.stringify gives an equal value; the            *)
(*    serialized form is kept apart from the value it encodes.             *)
(*  - Fields named asOf, storedVer, origin, startAck, prev, clean,         *)
(*    allowed, raw, cacheErr, wver, owner, and the variables ver, ackVer,  *)
(*    lastOv, resp, ref are history (ghost) state: no guard or assignment  *)
(*    of program state reads them.  resp holds the response sent by the    *)
(*    last step, if any; ref is a single TTL store fed with the same       *)
(*    commands as the cache.                                               *)
(***************************************************************************)
EXTENDS Integers, Sequences, FiniteSets, TLC

---------------------------------------------------------------------------
(* Bounds of the model *)

MaxReq == 2          \* requests in flight at once
MaxTx == 1           \* transaction ids ever allocated
MaxWrites == 2       \* write statements after which no write is admitted
MaxTicks == 2        \* clock advances
MaxChecks == 2       \* permission checks remembered by the browser model
MaxNewUsers == 2     \* users ever registered
MaxSeed == 2         \* rows of the transactions table before the first step
MaxCalls == 2        \* calls of login or register awaiting their response

---------------------------------------------------------------------------
(* Values fixed by the program *)

TTL_SECONDS == 900       \* setCache(cacheKey, data, 900)
MinAmountCents == 1      \* isFloat({ min: 0.01 })
TickMs == (TTL_SECONDS * 1000) \div 2   \* one clock step: half a TTL
CurrentMonth == 24       \* month number of CURRENT_DATE
AuthMax == 5             \* authLimiter: max
ApiMax == 100            \* apiLimiter: max
AnalyticsMax == 50       \* analyticsLimiter: max
ViewLimit == 10          \* fetchTransactions: limit

---------------------------------------------------------------------------
(* Users: the three demo users inserted by initializeDatabase *)

Users == {"admin-id", "user-id", "readonly-id"}

RoleOf(u) ==
  CASE u = "admin-id" -> "admin"
    [] u = "user-id" -> "user"
    [] u = "readonly-id" -> "read-only"

Null == [null |-> TRUE]

---------------------------------------------------------------------------
(* Sequences of tokens *)

\* String.prototype.includes on token sequences
Includes(s, sub) ==
  \E i \in 1..(Len(s) - Len(sub) + 1) : SubSeq(s, i, i + Len(sub) - 1) = sub

\* String.prototype.replace("*", ""): removes the first "*" only
RECURSIVE ReplaceStar(_)
ReplaceStar(p) ==
  IF p = <<>> THEN <<>>
  ELSE IF Head(p) = "*" THEN Tail(p)
  ELSE <<Head(p)>> \o ReplaceStar(Tail(p))

\* Glob matching of the key-value server's KEYS command ("*" matches any run)
RECURSIVE GlobMatch(_, _)
GlobMatch(key, pat) ==
  IF pat = <<>> THEN key = <<>>
  ELSE IF Head(pat) = "*"
    THEN GlobMatch(key, Tail(pat)) \/ (key # <<>> /\ GlobMatch(Tail(key), pat))
  ELSE key # <<>> /\ Head(key) = Head(pat) /\ GlobMatch(Tail(key), Tail(pat))

\* Maps (JavaScript Map, key-value server keyspace) as functions
MapSet(m, k, v) == [x \in (DOMAIN m) \cup {k} |-> IF x = k THEN v ELSE m[x]]
MapDel(m, ks) == [x \in (DOMAIN m) \ ks |-> m[x]]
EmptyMap == [x \in {} |-> Null]

---------------------------------------------------------------------------
(* Cache keys *)

\* variant: the key leaves out the request parameters
getCacheKey_NoParams(prefix, userId, params) == <<prefix, userId>>

getCacheKey(prefix, userId, params) ==
  <<prefix, userId>> \o (IF params # <<>> THEN params ELSE <<>>)

\* JSON.stringify / JSON.parse of a payload of finite numbers, strings and arrays
JSONStringify(data) == [json |-> data]
JSONParse(str) == str.json

---------------------------------------------------------------------------
(* Request bodies and query parameters drawn by the model *)

TimeRanges == {<<"3months">>, <<"12months">>}

CoffeeBody ==
  [type |-> "expense", amount |-> 4250, description |-> <<"Coffee">>,
   category |-> <<"Food", " ", "&", " ", "Dining">>, date |-> CurrentMonth - 1]

SalaryBody ==
  [type |-> "income", amount |-> 90000, description |-> <<" ", "Salary">>,
   category |-> <<"Job">>, date |-> CurrentMonth - 8]

ZeroBody ==
  [type |-> "expense", amount |-> 0, description |-> <<"Free">>,
   category |-> <<"Gift">>, date |-> CurrentMonth - 1]

Bodies == {CoffeeBody, SalaryBody, ZeroBody}

Tokens == {"none", "bad", "valid"}

---------------------------------------------------------------------------
(* State *)

VARIABLES
  transactions,   \* the transactions table: id -> row
  nextId,         \* ids are never reused (gen_random_uuid)
  memoryCache,    \* const memoryCache = new Map(): key -> {data, expires}
  redisStore,     \* keyspace of the external key-value server
  redisStatus,    \* "connecting", "ready", or "null" (redis = null)
  now,            \* Date.now(), milliseconds
  ticks,          \* clock advances so far
  reqs,           \* requests in flight, by slot
  resp,           \* the response sent by the last step, or Null
  ver,            \* number of write statements applied to the store
  ackVer,         \* per user: ver of the last answered own write
  lastOv,         \* per user: last overview stored with no write since
  ref,            \* one TTL store fed the same sets and invalidations
  users,          \* the users table: id -> row
  client,         \* the browser: AuthProvider state and localStorage
  hits            \* per limiter: requests of the client counted in its window

vars ==
  <<transactions, nextId, memoryCache, redisStore, redisStatus, now, ticks,
    reqs, resp, ver, ackVer, lastOv, ref, users, client, hits>>

\* what the steps after the middleware chain of a route, the environment
\* and the cache steps leave alone
authVars == <<users, client, hits>>

\* bcrypt.hash(password, 12) and bcrypt.compare(password, hash)
Hash(password) == [hash |-> password]
Compare(password, hashed) == hashed = Hash(password)

\* the rows initializeDatabase inserts
DemoEmail(u) ==
  CASE u = "admin-id" -> "admin@demo.com"
    [] u = "user-id" -> "user@demo.com"
    [] OTHER -> "readonly@demo.com"

\* a password: its text and its length in characters
Password(text, len) == [text |-> text, len |-> len]

DemoPassword(u) ==
  CASE u = "admin-id" -> Password("admin123", 8)
    [] u = "user-id" -> Password("user123", 7)
    [] OTHER -> Password("readonly123", 11)

DemoName(u) ==
  CASE u = "admin-id" -> "Admin User"
    [] u = "user-id" -> "Regular User"
    [] OTHER -> "Read Only User"

DemoUser(u) ==
  [id |-> u, name |-> DemoName(u), email |-> DemoEmail(u),
   password |-> Hash(DemoPassword(u)), role |-> RoleOf(u), created_at |-> 0]

\* no user logged in, nothing in localStorage, no permission asked yet
\* and the provider just mounted: loading, initAuth not yet run, no call
\* of login or register awaiting its response; the transactions view holds
\* its useState values and has read no response
NoSession ==
  [user |-> Null, token |-> Null, checks |-> <<>>, loading |-> TRUE,
   initAuth |-> "start", calls |-> {}, last |-> "mount",
   view |-> [transactions |-> <<>>, totalPages |-> [value |-> 1],
             currentPage |-> 1, of |-> Null]]

Slots == 1..MaxReq
TxIds == 1..MaxTx

---------------------------------------------------------------------------
(* Cache helpers *)

\* if (redis && redis.status === "ready")
RedisReady == redisStatus = "ready"

\* a key of the key-value server is visible until its expiry time
RedisLive(k) == k \in DOMAIN redisStore /\ redisStore[k].expireAt > now

\* variant: the memory branch does not look at the expiry time
getFromCache_NoExpiry(key, fail) ==
  IF RedisReady
  THEN [value |-> IF RedisLive(key) THEN JSONParse(redisStore[key].val) ELSE Null,
        memory |-> memoryCache, thrown |-> FALSE]
  ELSE IF key \in DOMAIN memoryCache
       THEN [value |-> memoryCache[key].data, memory |-> memoryCache,
             thrown |-> FALSE]
       ELSE [value |-> Null, memory |-> memoryCache, thrown |-> FALSE]

\* variant: a failing backend command is rethrown to the handler
getFromCache_Rethrow(key, fail) ==
  IF RedisReady
  THEN [value |-> IF ~fail /\ RedisLive(key)
                  THEN JSONParse(redisStore[key].val) ELSE Null,
        memory |-> memoryCache, thrown |-> fail]
  ELSE IF key \in DOMAIN memoryCache /\ memoryCache[key].expires > now
       THEN [value |-> memoryCache[key].data, memory |-> memoryCache,
             thrown |-> FALSE]
       ELSE [value |-> Null, memory |-> MapDel(memoryCache, {key}),
             thrown |-> FALSE]

\* getFromCache(key): fail says whether the backend command throws.
\* Result: the value returned, the memory map afterwards, and whether the
\* helper itself throws to its caller.
getFromCache(key, fail) ==
  IF RedisReady
  THEN IF fail
       THEN [value |-> Null, memory |-> memoryCache, thrown |-> FALSE]
       ELSE LET cached == IF RedisLive(key) THEN redisStore[key].val ELSE Null
            IN [value |-> IF cached # Null THEN JSONParse(cached) ELSE Null,
                memory |-> memoryCache, thrown |-> FALSE]
  ELSE IF key \in DOMAIN memoryCache /\ memoryCache[key].expires > now
       THEN [value |-> memoryCache[key].data, memory |-> memoryCache,
             thrown |-> FALSE]
       ELSE [value |-> Null, memory |-> MapDel(memoryCache, {key}),
             thrown |-> FALSE]

\* setCache(key, data, ttl)
setCache(key, data, ttl, fail) ==
  IF RedisReady
  THEN IF fail
       THEN [memory |-> memoryCache, redis |-> redisStore, thrown |-> FALSE]
       ELSE [memory |-> memoryCache,
             redis |-> MapSet(redisStore, key,
                         [val |-> JSONStringify(data),
                          expireAt |-> now + ttl * 1000, storedVer |-> ver]),
             thrown |-> FALSE]
  ELSE [memory |-> MapSet(memoryCache, key,
                    [data |-> data, expires |-> now + ttl * 1000,
                     storedVer |-> ver]),
        redis |-> redisStore, thrown |-> FALSE]

\* the keys one invalidateCache(pattern) removes from each backend
RedisKeys(pattern) == {k \in DOMAIN redisStore : RedisLive(k) /\ GlobMatch(k, pattern)}
MemoryKeys(pattern) == {k \in DOMAIN memoryCache : Includes(k, ReplaceStar(pattern))}

\* invalidateCache(pattern)
invalidateCache(pattern, fail) ==
  IF RedisReady
  THEN IF fail
       THEN [memory |-> memoryCache, redis |-> redisStore, thrown |-> FALSE]
       ELSE [memory |-> memoryCache,
             redis |-> MapDel(redisStore, RedisKeys(pattern)), thrown |-> FALSE]
  ELSE [memory |-> MapDel(memoryCache, MemoryKeys(pattern)),
        redis |-> redisStore, thrown |-> FALSE]

---------------------------------------------------------------------------
(* Middleware *)

\* authenticateToken: 0 when next() is called, else the status answered
authenticateToken(token, u) ==
  IF token = "none" THEN 401
  ELSE IF token \in {"bad", "expired"} THEN 403
  ELSE IF u \notin DOMAIN users THEN 401
  ELSE 0

\* variant: every authenticated role passes
requireRole_AnyRole(roles, u) == 0

\* variant: decoded.role, the role claim the token was signed with
RoleInTable_FromToken(u) == RoleOf(u)

\* req.user.role: the role column of the row authenticateToken selected
RoleInTable(u) == IF u \in DOMAIN users THEN users[u].role ELSE "none"

\* requireRole(roles)
requireRole(roles, u) ==
  IF u \notin DOMAIN users THEN 401
  ELSE IF RoleInTable(u) \notin roles THEN 403
  ELSE 0

\* rateLimit(...): limited says whether the client's window is used up
rateLimit(limited) == IF limited THEN 429 ELSE 0

\* the three limiters; each keeps one count per client, and the requests
\* of one client are modelled
Limiters == {"auth", "api", "analytics"}

LimiterMax(l) ==
  CASE l = "auth" -> AuthMax
    [] l = "api" -> ApiMax
    [] l = "analytics" -> AnalyticsMax

\* the window of limiter l is used up: the next count exceeds max
Used(l) == hits[l] >= LimiterMax(l)

\* a request reaches limiter l and is counted (rejected ones too); counts
\* above max are not told apart
Hit(l) ==
  hits' = [hits EXCEPT ![l] = IF @ > LimiterMax(l) THEN @ ELSE @ + 1]

\* the limiter runs only when the middleware before it called next()
Counted(l, reached) == IF reached THEN Hit(l) ELSE UNCHANGED hits

\* .trim()
RECURSIVE TrimStart(_)
TrimStart(s) ==
  IF s # <<>> /\ Head(s) = " " THEN TrimStart(Tail(s)) ELSE s

RECURSIVE TrimEnd(_)
TrimEnd(s) ==
  IF s # <<>> /\ s[Len(s)] = " " THEN TrimEnd(SubSeq(s, 1, Len(s) - 1)) ELSE s

Trim(s) == TrimEnd(TrimStart(s))

\* .escape(): replaces &, <, >, ', " and / by HTML entities, each a run
\* of characters
EscapeToken(c) ==
  CASE c = "&" -> <<"&", "a", "m", "p", ";">>
    [] c = "<" -> <<"&", "l", "t", ";">>
    [] c = ">" -> <<"&", "g", "t", ";">>
    [] c = "'" -> <<"&", "#", "x", "2", "7", ";">>
    [] c = "\"" -> <<"&", "q", "u", "o", "t", ";">>
    [] c = "/" -> <<"&", "#", "x", "2", "F", ";">>
    [] OTHER -> <<c>>

\* the entities of the two halves of the text, one after the other
RECURSIVE Escape(_)
Escape(s) ==
  IF s = <<>> THEN <<>>
  ELSE IF Len(s) = 1 THEN EscapeToken(s[1])
  ELSE LET h == Len(s) \div 2
       IN Escape(SubSeq(s, 1, h)) \o Escape(SubSeq(s, h + 1, Len(s)))

\* variant: the amount is not validated
ValidBody_AnyAmount(b) ==
  /\ b.type \in {"income", "expense"}
  /\ Len(Trim(b.description)) \in 1..255
  /\ Len(Trim(b.category)) \in 1..100
  /\ b.date \in Nat

\* the validation chain of POST and PUT /api/transactions
ValidBody(b) ==
  /\ b.type \in {"income", "expense"}
  /\ b.amount >= MinAmountCents
  /\ Len(Trim(b.description)) \in 1..255
  /\ Len(Trim(b.category)) \in 1..100
  /\ b.date \in Nat

\* req.body after the sanitizers of the chain
Sanitize(b) ==
  [b EXCEPT !.description = Escape(Trim(b.description)),
            !.category = Escape(Trim(b.category))]

\* handleValidationErrors
handleValidationErrors(b) == IF ~ValidBody(b) THEN 400 ELSE 0

\* errors.array(): the fields that failed their validator
InvalidFields(b) ==
  {f \in {"type", "amount", "description", "category", "date"} :
     \/ f = "type" /\ b.type \notin {"income", "expense"}
     \/ f = "amount" /\ b.amount < MinAmountCents
     \/ f = "description" /\ Len(Trim(b.description)) \notin 1..255
     \/ f = "category" /\ Len(Trim(b.category)) \notin 1..100
     \/ f = "date" /\ b.date \notin Nat}

\* the body of an error response: the validation failure carries details
ErrorBody(st, b) ==
  IF st = 400
  THEN [error |-> "Validation failed", details |-> InvalidFields(b)]
  ELSE Null

\* the first non-zero status of a chain of middleware results
RECURSIVE FirstStatus(_)
FirstStatus(chain) ==
  IF chain = <<>> THEN 0
  ELSE IF Head(chain) # 0 THEN Head(chain)
  ELSE FirstStatus(Tail(chain))

\* app.post("/api/transactions", ...), app.put("/api/transactions/:id", ...)
WriteBodyChain(token, u, limited, b) ==
  FirstStatus(<<authenticateToken(token, u),
                requireRole({"admin", "user"}, u),
                rateLimit(limited),
                handleValidationErrors(b)>>)

\* app.delete("/api/transactions/:id", ...)
DeleteChain(token, u, limited) ==
  FirstStatus(<<authenticateToken(token, u),
                requireRole({"admin", "user"}, u),
                rateLimit(limited)>>)

\* app.get("/api/analytics/...", authenticateToken, analyticsLimiter, ...)
AnalyticsChain(token, u, limited) ==
  FirstStatus(<<authenticateToken(token, u), rateLimit(limited)>>)

---------------------------------------------------------------------------
(* Queries on the transactions table *)

Rows == {transactions[i] : i \in DOMAIN transactions}
RowsOf(u) == {t \in Rows : t.user_id = u}

RECURSIVE SumAmount(_)
SumAmount(S) ==
  IF S = {} THEN 0
  ELSE LET t == CHOOSE x \in S : TRUE IN t.amount + SumAmount(S \ {t})

\* a nullable numeric column of a result row
SqlNull == [isNull |-> TRUE, v |-> 0]
SqlNum(n) == [isNull |-> FALSE, v |-> n]

\* SUM(CASE WHEN type = ty THEN amount ELSE 0 END): NULL over no rows
SumCase(S, ty) ==
  IF S = {} THEN SqlNull ELSE SqlNum(SumAmount({t \in S : t.type = ty}))

\* Number.parseFloat(x) || 0
ParseFloatOr0(x) == IF x.isNull THEN 0 ELSE x.v

\* ascending sequence of a finite set of integers
RECURSIVE Ascending(_)
Ascending(S) ==
  IF S = {} THEN <<>>
  ELSE LET m == CHOOSE x \in S : \A y \in S : x <= y
       IN <<m>> \o Ascending(S \ {m})

\* overviewQuery
OverviewQuery(u) ==
  [total_income |-> SumCase(RowsOf(u), "income"),
   total_expenses |-> SumCase(RowsOf(u), "expense"),
   transaction_count |-> Cardinality(RowsOf(u))]

\* trendQuery / trendsQuery: one row per month since the given month, by month
TrendQuery(u, since) ==
  LET S == {t \in RowsOf(u) : t.date >= since}
      months == Ascending({t.date : t \in S})
  IN [i \in DOMAIN months |->
        [month |-> months[i],
         income |-> SumCase({t \in S : t.date = months[i]}, "income"),
         expenses |-> SumCase({t \in S : t.date = months[i]}, "expense")]]

\* rows.map(row => ({month, income: parseFloat || 0, expenses: parseFloat || 0}))
MapTrend(rows) ==
  [i \in DOMAIN rows |->
     [month |-> rows[i].month,
      income |-> ParseFloatOr0(rows[i].income),
      expenses |-> ParseFloatOr0(rows[i].expenses)]]

\* the switch on timeRange: months of the trailing window
RangeMonths(timeRange) ==
  CASE timeRange = <<"3months">> -> 3
    [] timeRange = <<"6months">> -> 6
    [] timeRange = <<"12months">> -> 12
    [] timeRange = <<"2years">> -> 24
    [] OTHER -> 12

\* rows by amount, largest first (ties in the order the CHOOSE fixes)
RECURSIVE ByAmountDesc(_)
ByAmountDesc(S) ==
  IF S = {} THEN <<>>
  ELSE LET m == CHOOSE x \in S : \A y \in S : x.amount >= y.amount
       IN <<m>> \o ByAmountDesc(S \ {m})

\* variant: rows of every type are grouped
CategoryQuery_AllTypes(u, since) ==
  LET S == {t \in RowsOf(u) : t.date >= since}
  IN ByAmountDesc({[category |-> c,
                    amount |-> SumAmount({t \in S : t.category = c}),
                    count |-> Cardinality({t \in S : t.category = c})]
                     : c \in {t.category : t \in S}})

\* categoryQuery
CategoryQuery(u, since) ==
  LET S == {t \in RowsOf(u) : t.type = "expense" /\ t.date >= since}
  IN ByAmountDesc({[category |-> c,
                    amount |-> SumAmount({t \in S : t.category = c}),
                    count |-> Cardinality({t \in S : t.category = c})]
                     : c \in {t.category : t \in S}})

RECURSIVE SumRows(_)
SumRows(rows) ==
  IF rows = <<>> THEN 0 ELSE Head(rows).amount + SumRows(Tail(rows))

\* a quotient of two integers, kept as the pair
Ratio(n, d) == [num |-> n, den |-> d]

\* categoryBreakdown; the percentage is the quotient amount * 100 /
\* totalExpenses
CategoryBreakdown(rows) ==
  LET totalExpenses == SumRows(rows)
  IN [i \in DOMAIN rows |->
        [category |-> rows[i].category,
         amount |-> rows[i].amount,
         percentage |-> IF totalExpenses > 0
                        THEN Ratio(rows[i].amount * 100, totalExpenses)
                        ELSE Ratio(0, 1),
         count |-> rows[i].count]]

\* the payload of GET /api/analytics/overview from its two query results
OverviewData(overview, trendRows) ==
  LET totalIncome == ParseFloatOr0(overview.total_income)
      totalExpenses == ParseFloatOr0(overview.total_expenses)
  IN [totalIncome |-> totalIncome,
      totalExpenses |-> totalExpenses,
      balance |-> totalIncome - totalExpenses,
      transactionCount |-> overview.transaction_count,
      monthlyTrend |-> MapTrend(trendRows)]

\* the payload of GET /api/analytics/detailed from its two query results
DetailedData(trendRows, categoryRows) ==
  [monthlyTrends |-> MapTrend(trendRows),
   categoryBreakdown |-> CategoryBreakdown(categoryRows),
   yearlyComparison |-> <<>>]

---------------------------------------------------------------------------
(* Requests *)

Idle == [pc |-> "idle"]

\* a request that has just arrived in a slot
NewReq(kind, u, token, limited, id, body, range) ==
  [pc |-> "start", kind |-> kind, user |-> u, token |-> token,
   limited |-> limited, id |-> id, body |-> body, raw |-> Null,
   range |-> range, part |-> Null, data |-> Null, row |-> Null,
   asOf |-> ver, wver |-> 0, owner |-> Null, cacheErr |-> FALSE,
   startAck |-> IF u \in Users THEN ackVer[u] ELSE 0,
   prev |-> IF u \in Users THEN lastOv[u] ELSE Null,
   clean |-> TRUE, allowed |-> FALSE]

\* res.status(status).json(data)
Response(r, status, data, hit) ==
  [req |-> r, status |-> status, data |-> data, hit |-> hit]

\* a payload with the version of the store it was computed from and the
\* request it was computed for
Tagged(payload, r) ==
  [payload |-> payload, asOf |-> r.asOf, origin |-> <<r.kind, r.user, r.range>>]

\* a write statement on o's transactions disturbs o's analytics requests
Disturb(rs, o) ==
  [s \in Slots |->
     IF rs[s].pc # "idle" /\ rs[s].kind \in {"overview", "detailed"}
        /\ rs[s].user = o
     THEN [rs[s] EXCEPT !.clean = FALSE, !.prev = Null]
     ELSE rs[s]]

\* a write on o's transactions has run its statement and not yet answered
WriteInFlight(o) ==
  \E s \in Slots : /\ reqs[s].pc \in {"invAnalytics", "invOverview"}
                   /\ reqs[s].owner = [id |-> o]

\* a write request is admitted while fewer than MaxWrites statements ran
CanWrite == ver < MaxWrites

\* everything but the transactions table
InitExceptTable ==
  /\ nextId = 1
  /\ memoryCache = EmptyMap
  /\ redisStore = EmptyMap
  /\ redisStatus = "connecting"
  /\ now = 0
  /\ ticks = 0
  /\ reqs = [s \in Slots |-> Idle]
  /\ resp = Null
  /\ ver = 0
  /\ ackVer = [u \in Users |-> 0]
  /\ lastOv = [u \in Users |-> Null]
  /\ ref = EmptyMap
  /\ users = [u \in Users |-> DemoUser(u)]
  /\ client = NoSession
  /\ hits = [l \in Limiters |-> 0]

Init == transactions = EmptyMap /\ InitExceptTable

---------------------------------------------------------------------------
(* GET /api/analytics/overview *)

OverviewStart(s, u, token, limited, fail) ==
  /\ reqs[s] = Idle
  /\ LET r == NewReq("overview", u, token, limited, 0, Null, <<>>)
         st == AnalyticsChain(token, u, limited)
         g == getFromCache(getCacheKey("overview", u, <<>>), fail)
     IN IF st # 0
        THEN /\ resp' = Response(r, st, Null, FALSE)
             /\ UNCHANGED <<reqs, memoryCache, lastOv>>
        ELSE IF g.thrown
        THEN /\ resp' = Response(r, 500, Null, FALSE)
             /\ UNCHANGED <<reqs, memoryCache, lastOv>>
        ELSE IF g.value # Null
        THEN /\ resp' = Response(r, 200, g.value, TRUE)
             /\ memoryCache' = g.memory
             /\ UNCHANGED <<reqs, lastOv>>
        ELSE /\ reqs' = [reqs EXCEPT ![s] =
                           [r EXCEPT !.pc = "overviewQuery",
                                     !.cacheErr = RedisReady /\ fail]]
             /\ memoryCache' = g.memory
             /\ resp' = Null
             /\ UNCHANGED lastOv
  /\ UNCHANGED <<users, client, ref, transactions, nextId, redisStore, redisStatus, now, ticks,
                 ver, ackVer>>

OverviewTotals(s) ==
  /\ reqs[s].pc = "overviewQuery"
  /\ reqs' = [reqs EXCEPT ![s] =
                [@ EXCEPT !.pc = "trendQuery",
                          !.part = OverviewQuery(reqs[s].user),
                          !.asOf = ver]]
  /\ resp' = Null
  /\ UNCHANGED <<authVars, ref, transactions, nextId, memoryCache, redisStore, redisStatus,
                 now, ticks, ver, ackVer, lastOv>>

OverviewTrend(s) ==
  /\ reqs[s].pc = "trendQuery"
  /\ reqs' = [reqs EXCEPT ![s] =
                [@ EXCEPT !.pc = "setOverview",
                          !.data = OverviewData(reqs[s].part,
                                     TrendQuery(reqs[s].user, CurrentMonth - 6))]]
  /\ resp' = Null
  /\ UNCHANGED <<authVars, ref, transactions, nextId, memoryCache, redisStore, redisStatus,
                 now, ticks, ver, ackVer, lastOv>>

OverviewSet(s, fail) ==
  /\ reqs[s].pc = "setOverview"
  /\ LET r == [reqs[s] EXCEPT !.cacheErr = @ \/ (RedisReady /\ fail)]
         data == Tagged(r.data, r)
         c == setCache(getCacheKey("overview", r.user, <<>>), data,
                       TTL_SECONDS, fail)
     IN /\ memoryCache' = c.memory
        /\ redisStore' = c.redis
        /\ IF c.thrown
           THEN /\ resp' = Response(r, 500, Null, FALSE)
                /\ UNCHANGED lastOv
           ELSE /\ resp' = Response(r, 200, data, FALSE)
                /\ lastOv' = IF r.clean /\ ~WriteInFlight(r.user)
                             THEN [lastOv EXCEPT ![r.user] =
                                     [payload |-> r.data, at |-> now]]
                             ELSE lastOv
  /\ reqs' = [reqs EXCEPT ![s] = Idle]
  /\ UNCHANGED <<authVars, ref, transactions, nextId, redisStatus, now, ticks, ver, ackVer>>

---------------------------------------------------------------------------
(* GET /api/analytics/detailed *)

DetailedStart(s, u, token, limited, timeRange, fail) ==
  /\ reqs[s] = Idle
  /\ LET r == NewReq("detailed", u, token, limited, 0, Null, timeRange)
         st == AnalyticsChain(token, u, limited)
         g == getFromCache(getCacheKey("analytics", u, timeRange), fail)
     IN IF st # 0
        THEN /\ resp' = Response(r, st, Null, FALSE)
             /\ UNCHANGED <<reqs, memoryCache>>
        ELSE IF g.thrown
        THEN /\ resp' = Response(r, 500, Null, FALSE)
             /\ UNCHANGED <<reqs, memoryCache>>
        ELSE IF g.value # Null
        THEN /\ resp' = Response(r, 200, g.value, TRUE)
             /\ memoryCache' = g.memory
             /\ UNCHANGED reqs
        ELSE /\ reqs' = [reqs EXCEPT ![s] =
                           [r EXCEPT !.pc = "queries",
                                     !.part = [trends |-> Null, cats |-> Null],
                                     !.cacheErr = RedisReady /\ fail]]
             /\ memoryCache' = g.memory
             /\ resp' = Null
  /\ UNCHANGED <<users, client, ref, transactions, nextId, redisStore, redisStatus, now, ticks,
                 ver, ackVer, lastOv>>

\* the versions of the store the two queries of Promise.all read may differ
AfterQuery(r) ==
  IF r.part.trends # Null /\ r.part.cats # Null
  THEN [r EXCEPT !.pc = "setDetailed",
                 !.data = DetailedData(r.part.trends.rows, r.part.cats.rows)]
  ELSE r

DetailedTrends(s) ==
  /\ reqs[s].pc = "queries"
  /\ reqs[s].part.trends = Null
  /\ LET r == reqs[s]
         since == CurrentMonth - RangeMonths(r.range)
     IN reqs' = [reqs EXCEPT ![s] =
                   AfterQuery([r EXCEPT
                     !.part.trends = [rows |-> TrendQuery(r.user, since)],
                     !.asOf = IF r.part.cats = Null THEN ver ELSE @])]
  /\ resp' = Null
  /\ UNCHANGED <<authVars, ref, transactions, nextId, memoryCache, redisStore, redisStatus,
                 now, ticks, ver, ackVer, lastOv>>

DetailedCategories(s) ==
  /\ reqs[s].pc = "queries"
  /\ reqs[s].part.cats = Null
  /\ LET r == reqs[s]
         since == CurrentMonth - RangeMonths(r.range)
     IN reqs' = [reqs EXCEPT ![s] =
                   AfterQuery([r EXCEPT
                     !.part.cats = [rows |-> CategoryQuery(r.user, since)],
                     !.asOf = IF r.part.trends = Null THEN ver ELSE @])]
  /\ resp' = Null
  /\ UNCHANGED <<authVars, ref, transactions, nextId, memoryCache, redisStore, redisStatus,
                 now, ticks, ver, ackVer, lastOv>>

DetailedSet(s, fail) ==
  /\ reqs[s].pc = "setDetailed"
  /\ LET r == [reqs[s] EXCEPT !.cacheErr = @ \/ (RedisReady /\ fail)]
         data == Tagged(r.data, r)
         c == setCache(getCacheKey("analytics", r.user, r.range), data,
                       TTL_SECONDS, fail)
     IN /\ memoryCache' = c.memory
        /\ redisStore' = c.redis
        /\ resp' = IF c.thrown THEN Response(r, 500, Null, FALSE)
                   ELSE Response(r, 200, data, FALSE)
  /\ reqs' = [reqs EXCEPT ![s] = Idle]
  /\ UNCHANGED <<authVars, ref, transactions, nextId, redisStatus, now, ticks, ver, ackVer,
                 lastOv>>

---------------------------------------------------------------------------
(* POST /api/transactions *)

\* the CHECK constraints and column widths of the transactions table; a
\* statement writing a row that breaks one throws
TableAccepts(t) ==
  /\ t.type \in {"income", "expense"}
  /\ t.amount > 0
  /\ Len(t.description) <= 255
  /\ Len(t.category) <= 100

\* INSERT INTO transactions (...) VALUES (...) RETURNING *
\* created_at DEFAULT CURRENT_TIMESTAMP: the time of the insert, which
\* increases with the id
InsertRow(id, userId, b) ==
  [id |-> id, user_id |-> userId, type |-> b.type, amount |-> b.amount,
   description |-> b.description, category |-> b.category, date |-> b.date,
   created_at |-> id]

CreateStart(s, u, token, limited, body) ==
  /\ reqs[s] = Idle
  /\ LET r == [NewReq("create", u, token, limited, 0, Sanitize(body), <<>>)
                 EXCEPT !.raw = body]
         st == WriteBodyChain(token, u, limited, body)
         row == InsertRow(nextId, u, r.body)
     IN IF st # 0
        THEN /\ resp' = Response(r, st, ErrorBody(st, body), FALSE)
             /\ UNCHANGED <<transactions, nextId, reqs, ver, lastOv>>
        ELSE IF ~TableAccepts(row)
        THEN /\ resp' = Response(r, 500, Null, FALSE)
             /\ UNCHANGED <<transactions, nextId, reqs, ver, lastOv>>
        ELSE /\ nextId <= MaxTx
             /\ CanWrite
             /\ transactions' = MapSet(transactions, nextId, row)
             /\ nextId' = nextId + 1
             /\ ver' = ver + 1
             /\ reqs' = [Disturb(reqs, u) EXCEPT ![s] =
                           [r EXCEPT !.pc = "invAnalytics", !.row = row,
                                     !.wver = ver + 1, !.owner = [id |-> u]]]
             /\ lastOv' = [lastOv EXCEPT ![u] = Null]
             /\ resp' = Null
  /\ UNCHANGED <<users, client, ref, memoryCache, redisStore, redisStatus, now, ticks, ackVer>>

---------------------------------------------------------------------------
(* PUT /api/transactions/:id and DELETE /api/transactions/:id *)

\* variant: the check looks the id up without the owner condition
CheckQuery_AnyOwner(id, u) == {t \in Rows : t.id = id}

\* SELECT id FROM transactions WHERE id = $1 [AND user_id = $2]
CheckQuery(id, u) ==
  {t \in Rows : t.id = id /\ (RoleInTable(u) # "admin" => t.user_id = u)}

\* whether the row exists and the caller owns it or is admin, recorded
\* with the request when its check query runs
OwnsOrIsAdmin(id, u) ==
  /\ id \in DOMAIN transactions
  /\ (transactions[id].user_id = u \/ RoleInTable(u) = "admin")

UpdateStart(s, u, token, limited, id, body) ==
  /\ reqs[s] = Idle
  /\ LET r == [NewReq("update", u, token, limited, id, Sanitize(body), <<>>)
                 EXCEPT !.allowed = OwnsOrIsAdmin(id, u), !.raw = body]
         st == WriteBodyChain(token, u, limited, body)
     IN IF st # 0
        THEN /\ resp' = Response(r, st, ErrorBody(st, body), FALSE)
             /\ UNCHANGED reqs
        ELSE IF CheckQuery(id, u) = {}
        THEN /\ resp' = Response(r, 404, Null, FALSE)
             /\ UNCHANGED reqs
        ELSE /\ CanWrite
             /\ reqs' = [reqs EXCEPT ![s] =
                           [r EXCEPT !.pc = "update"]]
             /\ resp' = Null
  /\ UNCHANGED <<users, client, ref, transactions, nextId, memoryCache, redisStore, redisStatus,
                 now, ticks, ver, ackVer, lastOv>>

\* variant: the statement also sets user_id to the caller
UpdateRow_TakeOver(t, r) ==
  [t EXCEPT !.type = r.body.type, !.amount = r.body.amount,
            !.description = r.body.description,
            !.category = r.body.category, !.date = r.body.date,
            !.user_id = r.user]

\* SET type = $1, amount = $2, description = $3, category = $4, date = $5
\* on the row t, from the body of request r
UpdateRow(t, r) ==
  [t EXCEPT !.type = r.body.type, !.amount = r.body.amount,
            !.description = r.body.description,
            !.category = r.body.category, !.date = r.body.date]

\* UPDATE transactions SET ... WHERE id = $6 RETURNING *
UpdateWrite(s) ==
  /\ reqs[s].pc = "update"
  /\ LET r == reqs[s]
     IN IF r.id \in DOMAIN transactions
        THEN LET row == UpdateRow(transactions[r.id], r)
             IN IF ~TableAccepts(row)
                THEN /\ resp' = Response(r, 500, Null, FALSE)
                     /\ reqs' = [reqs EXCEPT ![s] = Idle]
                     /\ UNCHANGED <<transactions, ver, lastOv>>
                ELSE /\ transactions' = [transactions EXCEPT ![r.id] = row]
                     /\ ver' = ver + 1
                     /\ reqs' = [Disturb(reqs, row.user_id) EXCEPT ![s] =
                                   [r EXCEPT !.pc = "invAnalytics", !.row = row,
                                             !.wver = ver + 1,
                                             !.owner = [id |-> row.user_id]]]
                     /\ lastOv' = [lastOv EXCEPT ![row.user_id] = Null]
                     /\ resp' = Null
        ELSE /\ reqs' = [reqs EXCEPT ![s] = [r EXCEPT !.pc = "invAnalytics"]]
             /\ resp' = Null
             /\ UNCHANGED <<transactions, ver, lastOv>>
  /\ UNCHANGED <<authVars, ref, nextId, memoryCache, redisStore, redisStatus, now, ticks,
                 ackVer>>

DeleteStart(s, u, token, limited, id) ==
  /\ reqs[s] = Idle
  /\ LET r == [NewReq("delete", u, token, limited, id, Null, <<>>)
                 EXCEPT !.allowed = OwnsOrIsAdmin(id, u)]
         st == DeleteChain(token, u, limited)
     IN IF st # 0
        THEN /\ resp' = Response(r, st, Null, FALSE)
             /\ UNCHANGED reqs
        ELSE IF CheckQuery(id, u) = {}
        THEN /\ resp' = Response(r, 404, Null, FALSE)
             /\ UNCHANGED reqs
        ELSE /\ CanWrite
             /\ reqs' = [reqs EXCEPT ![s] =
                           [r EXCEPT !.pc = "delete"]]
             /\ resp' = Null
  /\ UNCHANGED <<users, client, ref, transactions, nextId, memoryCache, redisStore, redisStatus,
                 now, ticks, ver, ackVer, lastOv>>

\* DELETE FROM transactions WHERE id = $1
DeleteWrite(s) ==
  /\ reqs[s].pc = "delete"
  /\ LET r == reqs[s]
     IN IF r.id \in DOMAIN transactions
        THEN LET o == transactions[r.id].user_id
             IN /\ transactions' = MapDel(transactions, {r.id})
                /\ ver' = ver + 1
                /\ reqs' = [Disturb(reqs, o) EXCEPT ![s] =
                              [r EXCEPT !.pc = "invAnalytics",
                                        !.wver = ver + 1,
                                        !.owner = [id |-> o]]]
                /\ lastOv' = [lastOv EXCEPT ![o] = Null]
        ELSE /\ reqs' = [reqs EXCEPT ![s] = [r EXCEPT !.pc = "invAnalytics"]]
             /\ UNCHANGED <<transactions, ver, lastOv>>
  /\ resp' = Null
  /\ UNCHANGED <<authVars, ref, nextId, memoryCache, redisStore, redisStatus, now, ticks,
                 ackVer>>

---------------------------------------------------------------------------
(* The cache invalidation and the success response of the three writes *)

\* the user whose entries a write handler invalidates: const userId = req.user.id
InvalidatedUser(r) == r.user

\* await invalidateCache(`analytics:${userId}`)
WriteInvAnalytics(s, fail) ==
  /\ reqs[s].pc = "invAnalytics"
  /\ LET r == reqs[s]
         c == invalidateCache(<<"analytics", InvalidatedUser(r)>>, fail)
     IN /\ memoryCache' = c.memory
        /\ redisStore' = c.redis
        /\ IF c.thrown
           THEN /\ resp' = Response(r, 500, Null, FALSE)
                /\ reqs' = [reqs EXCEPT ![s] = Idle]
           ELSE /\ resp' = Null
                /\ reqs' = [reqs EXCEPT ![s] =
                              [r EXCEPT !.pc = "invOverview",
                                        !.cacheErr = @ \/ (RedisReady /\ fail)]]
  /\ UNCHANGED <<authVars, ref, transactions, nextId, redisStatus, now, ticks, ver, ackVer,
                 lastOv>>

\* await invalidateCache(`overview:${userId}`), then the success response
WriteInvOverview(s, fail) ==
  /\ reqs[s].pc = "invOverview"
  /\ LET r == [reqs[s] EXCEPT !.cacheErr = @ \/ (RedisReady /\ fail)]
         c == invalidateCache(<<"overview", InvalidatedUser(r)>>, fail)
     IN /\ memoryCache' = c.memory
        /\ redisStore' = c.redis
        /\ IF c.thrown
           THEN /\ resp' = Response(r, 500, Null, FALSE)
                /\ UNCHANGED ackVer
           ELSE /\ resp' = Response(r, IF r.kind = "create" THEN 201 ELSE 200,
                                     r.row, FALSE)
                /\ ackVer' = IF r.owner = [id |-> r.user] /\ r.wver > ackVer[r.user]
                             THEN [ackVer EXCEPT ![r.user] = r.wver]
                             ELSE ackVer
  /\ reqs' = [reqs EXCEPT ![s] = Idle]
  /\ UNCHANGED <<authVars, ref, transactions, nextId, redisStatus, now, ticks, ver, lastOv>>

---------------------------------------------------------------------------
(* Environment *)

\* the clock advances; the key-value server drops the keys that expired
Tick ==
  /\ ticks < MaxTicks
  /\ ticks' = ticks + 1
  /\ now' = now + TickMs
  /\ redisStore' = MapDel(redisStore,
                     {k \in DOMAIN redisStore : redisStore[k].expireAt <= now + TickMs})
  /\ resp' = Null
  /\ UNCHANGED <<authVars, ref, transactions, nextId, memoryCache, redisStatus, reqs, ver,
                 ackVer, lastOv>>

\* the connection to the key-value server becomes ready
RedisConnect ==
  /\ redisStatus = "connecting"
  /\ redisStatus' = "ready"
  /\ resp' = Null
  /\ UNCHANGED <<authVars, ref, transactions, nextId, memoryCache, redisStore, now, ticks,
                 reqs, ver, ackVer, lastOv>>

\* the connection is lost and the client reconnects
RedisClose ==
  /\ redisStatus = "ready"
  /\ redisStatus' = "connecting"
  /\ resp' = Null
  /\ UNCHANGED <<authVars, ref, transactions, nextId, memoryCache, redisStore, now, ticks,
                 reqs, ver, ackVer, lastOv>>

\* redis.on("error", ...): redis = null
RedisError ==
  /\ redisStatus # "null"
  /\ redisStatus' = "null"
  /\ resp' = Null
  /\ UNCHANGED <<authVars, ref, transactions, nextId, memoryCache, redisStore, now, ticks,
                 reqs, ver, ackVer, lastOv>>

---------------------------------------------------------------------------
(* Specification *)

\* a request arrives in the first free slot
FreeSlot(s) == reqs[s] = Idle /\ \A t \in Slots : t < s => reqs[t] # Idle

\* The steps of each route, and of the environment.  The parameters are
\* the sets the inputs of arriving requests are drawn from: the calling
\* users, the tokens they present, whether the rate limiter may reject, the
\* bodies submitted, and whether a command of the cache backend may throw.
OverviewSteps(Ss, Us, Toks, Lims, Fails) ==
  \/ \E s \in Ss, u \in Us, token \in Toks, limited \in Lims,
        fail \in Fails :
          FreeSlot(s) /\ OverviewStart(s, u, token, limited, fail) /\ UNCHANGED hits
  \/ \E s \in Slots : OverviewTotals(s)
  \/ \E s \in Slots : OverviewTrend(s)
  \/ \E s \in Slots, fail \in Fails : OverviewSet(s, fail)

DetailedStepsOver(Ss, Us, Toks, Lims, Fails, Ranges) ==
  \/ \E s \in Ss, u \in Us, token \in Toks, limited \in Lims,
        timeRange \in Ranges, fail \in Fails :
          FreeSlot(s) /\ DetailedStart(s, u, token, limited, timeRange, fail) /\ UNCHANGED hits
  \/ \E s \in Slots : DetailedTrends(s)
  \/ \E s \in Slots : DetailedCategories(s)
  \/ \E s \in Slots, fail \in Fails : DetailedSet(s, fail)

DetailedSteps(Ss, Us, Toks, Lims, Fails) ==
  DetailedStepsOver(Ss, Us, Toks, Lims, Fails, TimeRanges)

CreateSteps(Ss, Us, Toks, Lims, Bods) ==
  \E s \in Ss, u \in Us, token \in Toks, limited \in Lims, body \in Bods :
    FreeSlot(s) /\ CreateStart(s, u, token, limited, body) /\ UNCHANGED hits

UpdateSteps(Ss, Us, Toks, Lims, Bods) ==
  \/ \E s \in Ss, u \in Us, token \in Toks, limited \in Lims,
        id \in TxIds, body \in Bods :
          FreeSlot(s) /\ UpdateStart(s, u, token, limited, id, body) /\ UNCHANGED hits
  \/ \E s \in Slots : UpdateWrite(s)

DeleteSteps(Ss, Us, Toks, Lims) ==
  \/ \E s \in Ss, u \in Us, token \in Toks, limited \in Lims,
        id \in TxIds : FreeSlot(s) /\ DeleteStart(s, u, token, limited, id) /\ UNCHANGED hits
  \/ \E s \in Slots : DeleteWrite(s)

InvalidateSteps(Fails) ==
  \/ \E s \in Slots, fail \in Fails : WriteInvAnalytics(s, fail)
  \/ \E s \in Slots, fail \in Fails : WriteInvOverview(s, fail)

RedisSteps == RedisConnect \/ RedisClose \/ RedisError

AllUsers == {"admin-id", "user-id", "readonly-id"}
Writers == {"admin-id", "user-id"}

\* Concurrent requests with valid inputs on the in-process backend: one
\* user reads the overview while that user and the admin write.
Next ==
  \/ OverviewSteps(Slots, {"user-id"}, {"valid"}, {FALSE}, {FALSE})
  \/ CreateSteps(Slots, Writers, {"valid"}, {FALSE}, {CoffeeBody})
  \/ UpdateSteps(Slots, Writers, {"valid"}, {FALSE}, {SalaryBody})
  \/ DeleteSteps(Slots, Writers, {"valid"}, {FALSE})
  \/ InvalidateSteps({FALSE})
  \/ Tick

Spec == Init /\ [][Next]_vars

\* One request at a time with every token, limiter outcome, body and caller
\* on the write routes; a request without a valid token names no user, so
\* it is sent for one caller only.
NextGate ==
  \/ OverviewSteps({1}, {"user-id"}, {"valid"}, {FALSE}, {FALSE})
  \/ CreateSteps({1}, AllUsers, {"valid"}, BOOLEAN, Bodies)
  \/ UpdateSteps({1}, AllUsers, {"valid"}, BOOLEAN, Bodies)
  \/ DeleteSteps({1}, AllUsers, {"valid"}, BOOLEAN)
  \/ CreateSteps({1}, {"user-id"}, Tokens \ {"valid"}, BOOLEAN, Bodies)
  \/ UpdateSteps({1}, {"user-id"}, Tokens \ {"valid"}, BOOLEAN, Bodies)
  \/ DeleteSteps({1}, {"user-id"}, Tokens \ {"valid"}, BOOLEAN)
  \/ InvalidateSteps({FALSE})

SpecGate == Init /\ [][NextGate]_vars

\* One request at a time on both backends, whose commands may throw: both
\* reports of one user, and that user's creates.
NextBackends ==
  \/ OverviewSteps({1}, {"user-id"}, {"valid"}, {FALSE}, BOOLEAN)
  \/ DetailedSteps({1}, {"user-id"}, {"valid"}, {FALSE}, BOOLEAN)
  \/ CreateSteps({1}, {"user-id"}, {"valid"}, {FALSE}, {CoffeeBody})
  \/ InvalidateSteps(BOOLEAN)
  \/ RedisSteps

SpecBackends == Init /\ [][NextBackends]_vars

\* at most two requests at once
TwoSlots == {s \in Slots : s <= 2}

\* Two concurrent requests: reports over every time range and creates,
\* and the overview when no other request is running.
NextKeys ==
  \/ OverviewSteps({1}, {"admin-id"}, {"valid"}, {FALSE}, {FALSE})
  \/ DetailedSteps(TwoSlots, Writers, {"valid"}, {FALSE}, {FALSE})
  \/ CreateSteps(TwoSlots, {"user-id"}, {"valid"}, {FALSE}, {SalaryBody})
  \/ InvalidateSteps({FALSE})

SpecKeys == Init /\ [][NextKeys]_vars

---------------------------------------------------------------------------
(* The cache helpers called directly *)

CacheKeys ==
  {getCacheKey("overview", "user-id", <<>>),
   getCacheKey("analytics", "user-id", <<"3months">>),
   getCacheKey("overview", "admin-id", <<>>)}

CachePatterns ==
  {<<"analytics", "user-id">>, <<"overview", "user-id">>,
   <<"overview", "admin-id">>}

CacheValues == {[payload |-> "p1"], [payload |-> "p2"]}

\* what the backend in use takes a pattern to match
Matches(k, pattern) ==
  IF RedisReady THEN GlobMatch(k, pattern)
  ELSE Includes(k, ReplaceStar(pattern))

\* get on the single store
RefGet(k) ==
  IF k \in DOMAIN ref /\ now < ref[k].setAt + ref[k].ttl * 1000
  THEN ref[k].data
  ELSE Null

CacheSet(k, v) ==
  /\ LET c == setCache(k, v, TTL_SECONDS, FALSE)
     IN /\ memoryCache' = c.memory
        /\ redisStore' = c.redis
  /\ ref' = MapSet(ref, k, [data |-> v, setAt |-> now, ttl |-> TTL_SECONDS])
  /\ resp' = Null
  /\ UNCHANGED <<authVars, transactions, nextId, redisStatus, now, ticks, reqs, ver,
                 ackVer, lastOv>>

CacheInvalidate(pattern) ==
  /\ LET c == invalidateCache(pattern, FALSE)
     IN /\ memoryCache' = c.memory
        /\ redisStore' = c.redis
  /\ ref' = MapDel(ref, {k \in DOMAIN ref : Matches(k, pattern)})
  /\ resp' = Null
  /\ UNCHANGED <<authVars, transactions, nextId, redisStatus, now, ticks, reqs, ver,
                 ackVer, lastOv>>

CacheGet(k) ==
  /\ LET g == getFromCache(k, FALSE)
     IN /\ memoryCache' = g.memory
        /\ resp' = [get |-> k, value |-> g.value]
  /\ UNCHANGED <<authVars, transactions, nextId, redisStore, redisStatus, now, ticks,
                 reqs, ver, ackVer, lastOv, ref>>

CacheSteps(Ks, Ps) ==
  \/ \E k \in Ks, v \in CacheValues : CacheSet(k, v)
  \/ \E pattern \in Ps : CacheInvalidate(pattern)
  \/ \E k \in Ks : CacheGet(k)

\* the backend is chosen before the first command and stays
NextCacheFixed ==
  \/ CacheSteps(CacheKeys, CachePatterns)
  \/ Tick
  \/ RedisConnect /\ ref = EmptyMap /\ memoryCache = EmptyMap

SpecCacheFixed == Init /\ [][NextCacheFixed]_vars

\* the external backend comes and goes between commands
NextCache ==
  \/ CacheSteps({getCacheKey("overview", "user-id", <<>>),
                 getCacheKey("analytics", "user-id", <<"3months">>)},
                {<<"analytics", "user-id">>, <<"overview", "user-id">>})
  \/ Tick
  \/ RedisSteps

SpecCache == Init /\ [][NextCache]_vars

---------------------------------------------------------------------------
(* Auth routes and GET /api/users *)

\* ids gen_random_uuid() gives to registered users, in order of insertion
NewUserIds ==
  [n \in 1..MaxNewUsers |->
     CASE n = 1 -> "new-1-id" [] n = 2 -> "new-2-id" [] OTHER -> "new-n-id"]

\* isEmail()
IsEmail(email) == email # "not-an-email"

\* normalizeEmail(): lower case
NormalizeEmail(email) ==
  CASE email = "Eve@Mail.com" -> "eve@mail.com"
    [] OTHER -> email

\* bodies of POST /api/auth/register; a body may carry fields the handler
\* does not read
EveBody ==
  [name |-> <<"E", "v", "e">>, email |-> "eve@mail.com",
   password |-> Password("secret1", 7), role |-> "admin"]
EveUpperBody == [EveBody EXCEPT !.email = "Eve@Mail.com"]
ShortPasswordBody == [EveBody EXCEPT !.password = Password("abc", 3)]
TakenBody == [EveBody EXCEPT !.email = "user@demo.com"]
BobBody ==
  [name |-> <<"B", "o", "b">>, email |-> "bob@mail.com",
   password |-> Password("hunter22", 8)]
RegisterBodies == {EveBody, EveUpperBody, ShortPasswordBody, TakenBody, BobBody}

\* bodies of POST /api/auth/login
LoginBodies ==
  {[email |-> "user@demo.com", password |-> Password("user123", 7)],
   [email |-> "user@demo.com", password |-> Password("wrong", 5)],
   [email |-> "Eve@Mail.com", password |-> Password("secret1", 7)],
   [email |-> "admin@demo.com", password |-> Password("", 0)]}

ValidRegisterBody(b) ==
  /\ Len(Trim(b.name)) \in 2..50
  /\ IsEmail(b.email)
  /\ b.password.len \in 6..128

ValidLoginBody(b) == IsEmail(b.email) /\ b.password.len > 0

\* SELECT ... FROM users WHERE email = $1
UsersByEmail(email) == {id \in DOMAIN users : users[id].email = email}

\* variant: the whole row is sent as the user object
UserObject_WholeRow(row) == row

\* the user object of the register and login responses
UserObject(row) ==
  [id |-> row.id, name |-> row.name, email |-> row.email, role |-> row.role,
   createdAt |-> row.created_at]

\* jwt.sign({ userId, email, role }, ...)
SignToken(row) == [userId |-> row.id, email |-> row.email, role |-> row.role]

\* variant: the role is taken from the request body when it carries one
RegisteredRole_FromBody(b) == IF "role" \in DOMAIN b THEN b.role ELSE "user"

\* the role parameter of the INSERT of register
RegisteredRole(b) == "user"

RegisterStart(s, limited, body) ==
  /\ reqs[s] = Idle
  /\ LET b == [body EXCEPT !.name = Escape(Trim(body.name)),
                           !.email = NormalizeEmail(body.email)]
         r == [NewReq("register", "", "none", limited, 0, b, <<>>)
                 EXCEPT !.raw = body]
         st == FirstStatus(<<rateLimit(limited),
                             IF ValidRegisterBody(body) THEN 0 ELSE 400>>)
     IN IF st # 0
        THEN /\ resp' = Response(r, st, [error |-> "rejected"], FALSE)
             /\ UNCHANGED reqs
        ELSE IF UsersByEmail(b.email) # {}
        THEN /\ resp' = Response(r, 400, [error |-> "User already exists"], FALSE)
             /\ UNCHANGED reqs
        ELSE /\ Cardinality(DOMAIN users) + Cardinality({t \in Slots :
                  reqs[t].pc = "insertUser"}) < Cardinality(Users) + MaxNewUsers
             /\ reqs' = [reqs EXCEPT ![s] = [r EXCEPT !.pc = "insertUser"]]
             /\ resp' = Null
  /\ UNCHANGED <<transactions, nextId, memoryCache, redisStore, redisStatus,
                 now, ticks, ver, ackVer, lastOv, ref, users, client>>

\* bcrypt.hash, INSERT INTO users ... RETURNING, jwt.sign, res.status(201);
\* the INSERT throws when the email is taken (email ... UNIQUE)
RegisterInsert(s) ==
  /\ reqs[s].pc = "insertUser"
  /\ LET r == reqs[s]
         id == NewUserIds[Cardinality(DOMAIN users) - Cardinality(Users) + 1]
         row == [id |-> id, name |-> r.body.name, email |-> r.body.email,
                 password |-> Hash(r.body.password),
                 role |-> RegisteredRole(r.body), created_at |-> now]
     IN IF UsersByEmail(r.body.email) # {}
        THEN /\ resp' = Response(r, 500, [error |-> "Internal server error"], FALSE)
             /\ UNCHANGED users
        ELSE /\ users' = MapSet(users, id, row)
             /\ resp' = Response(r, 201,
                           [message |-> "User created successfully",
                            user |-> UserObject(row), token |-> SignToken(row)],
                           FALSE)
  /\ reqs' = [reqs EXCEPT ![s] = Idle]
  /\ UNCHANGED <<transactions, nextId, memoryCache, redisStore, redisStatus,
                 now, ticks, ver, ackVer, lastOv, ref, client, hits>>

\* POST /api/auth/login
Login(limited, body) ==
  /\ LET b == [body EXCEPT !.email = NormalizeEmail(body.email)]
         r == [NewReq("login", "", "none", limited, 0, b, <<>>)
                 EXCEPT !.raw = body]
         st == FirstStatus(<<rateLimit(limited),
                             IF ValidLoginBody(body) THEN 0 ELSE 400>>)
         found == UsersByEmail(b.email)
     IN IF st # 0
        THEN resp' = Response(r, st, [error |-> "rejected"], FALSE)
        ELSE IF found = {}
        THEN resp' = Response(r, 401, [error |-> "Invalid credentials"], FALSE)
        ELSE LET user == users[CHOOSE id \in found : TRUE]
             IN IF ~Compare(b.password, user.password)
                THEN resp' = Response(r, 401, [error |-> "Invalid credentials"],
                                      FALSE)
                ELSE resp' = Response(r, 200,
                               [message |-> "Login successful",
                                user |-> UserObject(user),
                                token |-> SignToken(user)], FALSE)
  /\ UNCHANGED <<transactions, nextId, memoryCache, redisStore, redisStatus,
                 now, ticks, reqs, ver, ackVer, lastOv, ref, users, client>>

\* GET /api/auth/me
Me(token, u) ==
  /\ LET r == NewReq("me", u, token, FALSE, 0, Null, <<>>)
         st == authenticateToken(token, u)
     IN IF st # 0
        THEN resp' = Response(r, st, [error |-> "rejected"], FALSE)
        ELSE resp' = Response(r, 200,
                       [user |-> [id |-> users[u].id, name |-> users[u].name,
                                  email |-> users[u].email,
                                  role |-> users[u].role]], FALSE)
  /\ UNCHANGED <<transactions, nextId, memoryCache, redisStore, redisStatus,
                 now, ticks, reqs, ver, ackVer, lastOv, ref, users, client, hits>>

\* GET /api/users (the order of the rows is not modelled)
UsersList(token, u, limited) ==
  /\ LET r == NewReq("users", u, token, limited, 0, Null, <<>>)
         st == FirstStatus(<<authenticateToken(token, u),
                             requireRole({"admin"}, u),
                             rateLimit(limited)>>)
     IN IF st # 0
        THEN resp' = Response(r, st, [error |-> "rejected"], FALSE)
        ELSE resp' = Response(r, 200,
               [users |-> {[id |-> users[id].id, name |-> users[id].name,
                            email |-> users[id].email, role |-> users[id].role,
                            createdAt |-> users[id].created_at,
                            transactionCount |->
                              Cardinality({t \in Rows : t.user_id = id})] :
                           id \in DOMAIN users}], FALSE)
  /\ UNCHANGED <<transactions, nextId, memoryCache, redisStore, redisStatus,
                 now, ticks, reqs, ver, ackVer, lastOv, ref, users, client>>

\* tokens: none sent, bad signature, expired, or valid
AuthTokens == Tokens \cup {"expired"}

\* ids a token may name: the demo users, a registered user, and a user
\* that is not in the table
TokenUsers == AllUsers \cup {"new-1-id", "gone-id"}

NextAuth ==
  \/ \E s \in Slots, limited \in BOOLEAN, body \in RegisterBodies :
       FreeSlot(s) /\ RegisterStart(s, limited, body) /\ UNCHANGED hits
  \/ \E s \in Slots : RegisterInsert(s)
  \/ \E limited \in BOOLEAN, body \in LoginBodies :
       Login(limited, body) /\ UNCHANGED hits
  \/ \E token \in AuthTokens, u \in TokenUsers : Me(token, u)
  \/ \E token \in AuthTokens, u \in TokenUsers, limited \in BOOLEAN :
       UsersList(token, u, limited) /\ UNCHANGED hits
  \/ CreateSteps({1}, {"user-id"}, {"valid"}, {FALSE}, {CoffeeBody})
  \/ InvalidateSteps({FALSE})

SpecAuth == Init /\ [][NextAuth]_vars

---------------------------------------------------------------------------
(* GET /api/transactions *)

\* Texts of this route are sequences of single characters.
TeaBody ==
  [type |-> "expense", amount |-> 300, description |-> <<"T", "e", "a">>,
   category |-> <<"C", "a", "f", "e">>, date |-> CurrentMonth - 1]
PayBody ==
  [type |-> "income", amount |-> 90000, description |-> <<"P", "a", "y">>,
   category |-> <<"J", "o", "b">>, date |-> CurrentMonth - 8]
LunchBody ==
  [type |-> "expense", amount |-> 1200, description |-> <<"E", "a", "t">>,
   category |-> <<"C", "a", "f", "e">>, date |-> CurrentMonth - 1]

\* rows the table may hold before the first step: owner and body
SeedRows ==
  {[owner |-> "user-id", body |-> TeaBody],
   [owner |-> "user-id", body |-> PayBody],
   [owner |-> "admin-id", body |-> LunchBody]}

\* a table of earlier inserts; its ids precede those given later
SeedTable(seq) ==
  [id \in (1 - Len(seq))..0 |->
     InsertRow(id, seq[id + Len(seq)].owner, Sanitize(seq[id + Len(seq)].body))]

SeedTablesOf(rows) ==
  {SeedTable(seq) : seq \in UNION {[1..n -> rows] : n \in 0..MaxSeed}}

SeedTables == SeedTablesOf(SeedRows)

\* the created_at column of a row
CreatedAt(t) == t.created_at

\* req.query: page, limit and search may be absent
Searches == {<<>>, <<"E", "A">>, <<"j", "o">>, <<"_">>}
ListQueries ==
  [page : 1..3, limit : {1, 2}, search : Searches]
    \cup {[search |-> <<>>]}

\* const { page = 1, limit = 10, search = "" } = req.query
QueryPage(q) == IF "page" \in DOMAIN q THEN q.page ELSE 1
QueryLimit(q) == IF "limit" \in DOMAIN q THEN q.limit ELSE 10
QuerySearch(q) == IF "search" \in DOMAIN q THEN q.search ELSE <<>>

\* case folding of ILIKE
Lower(c) ==
  CASE c = "A" -> "a" [] c = "B" -> "b" [] c = "C" -> "c" [] c = "E" -> "e"
    [] c = "J" -> "j" [] c = "O" -> "o" [] c = "P" -> "p" [] c = "T" -> "t"
    [] c = "Y" -> "y"
    [] OTHER -> c

\* text ILIKE pattern: % matches any run of characters, _ any one
\* character, a backslash makes the next character literal
RECURSIVE ILike(_, _)
ILike(text, pattern) ==
  IF pattern = <<>> THEN text = <<>>
  ELSE IF Head(pattern) = "%"
  THEN ILike(text, Tail(pattern))
         \/ (text # <<>> /\ ILike(Tail(text), pattern))
  ELSE IF Head(pattern) = "_"
  THEN text # <<>> /\ ILike(Tail(text), Tail(pattern))
  ELSE IF Head(pattern) = "\\" /\ Len(pattern) > 1
  THEN /\ text # <<>>
       /\ Lower(Head(text)) = Lower(pattern[2])
       /\ ILike(Tail(text), Tail(Tail(pattern)))
  ELSE /\ text # <<>>
       /\ Lower(Head(text)) = Lower(Head(pattern))
       /\ ILike(Tail(text), Tail(pattern))

\* `%${search}%`
SearchPattern(search) == <<"%">> \o search \o <<"%">>

\* variant: the WHERE clause has no user_id condition
ListWhere_AnyOwner(userId, search) ==
  {t \in Rows :
     search # <<>> =>
       \/ ILike(t.description, SearchPattern(search))
       \/ ILike(t.category, SearchPattern(search))}

\* WHERE user_id = $1 [AND (description ILIKE $2 OR category ILIKE $2)]
ListWhere(userId, search) ==
  {t \in Rows :
     /\ t.user_id = userId
     /\ search # <<>> =>
          \/ ILike(t.description, SearchPattern(search))
          \/ ILike(t.category, SearchPattern(search))}

\* ORDER BY date DESC, created_at DESC
ListBefore(a, b) ==
  a.date > b.date \/ (a.date = b.date /\ CreatedAt(a) > CreatedAt(b))

RECURSIVE OrderBy(_)
OrderBy(S) ==
  IF S = {} THEN <<>>
  ELSE LET first == CHOOSE a \in S : \A b \in S \ {a} : ListBefore(a, b)
       IN <<first>> \o OrderBy(S \ {first})

\* LIMIT $n OFFSET $m
LimitOffset(seq, limit, offset) ==
  SubSeq(seq, offset + 1,
         IF offset + limit < Len(seq) THEN offset + limit ELSE Len(seq))

\* SELECT id, type, amount, description, category, date, created_at
ListColumns(t) ==
  [id |-> t.id, type |-> t.type, amount |-> t.amount,
   description |-> t.description, category |-> t.category, date |-> t.date,
   created_at |-> CreatedAt(t)]

\* variant: the quotient is rounded down
TotalPages_Floor(totalCount, limit) == totalCount \div limit

\* Math.ceil(totalCount / limit)
TotalPages(totalCount, limit) == (totalCount + limit - 1) \div limit

\* app.get("/api/transactions", authenticateToken, apiLimiter, ...) up to
\* the first query
ListStart(s, u, token, limited, q) ==
  /\ reqs[s] = Idle
  /\ LET r == NewReq("list", u, token, limited, 0, q, <<>>)
         st == AnalyticsChain(token, u, limited)
         page == QueryPage(q)
         limit == QueryLimit(q)
         offset == (page - 1) * limit
         rows == LimitOffset(OrderBy(ListWhere(u, QuerySearch(q))), limit, offset)
     IN IF st # 0
        THEN /\ resp' = Response(r, st, Null, FALSE)
             /\ UNCHANGED reqs
        ELSE /\ reqs' = [reqs EXCEPT ![s] =
                  [r EXCEPT !.pc = "count",
                            !.part = [i \in DOMAIN rows |-> ListColumns(rows[i])]]]
             /\ resp' = Null
  /\ UNCHANGED <<users, client, transactions, nextId, memoryCache, redisStore,
                 redisStatus, now, ticks, ver, ackVer, lastOv, ref>>

\* the count query and the response
ListCount(s) ==
  /\ reqs[s].pc = "count"
  /\ LET r == reqs[s]
         page == QueryPage(r.body)
         limit == QueryLimit(r.body)
         totalCount == Cardinality(ListWhere(r.user, QuerySearch(r.body)))
         totalPages == TotalPages(totalCount, limit)
     IN resp' = Response(r, 200,
                  [transactions |-> r.part,
                   pagination |-> [currentPage |-> page,
                                   totalPages |-> totalPages,
                                   totalCount |-> totalCount,
                                   hasNext |-> page < totalPages,
                                   hasPrev |-> page > 1]], FALSE)
  /\ reqs' = [reqs EXCEPT ![s] = Idle]
  /\ UNCHANGED <<authVars, transactions, nextId, memoryCache, redisStore,
                 redisStatus, now, ticks, ver, ackVer, lastOv, ref>>

ListSteps(Ss, Us, Toks, Lims, Qs) ==
  \/ \E s \in Ss, u \in Us, token \in Toks, limited \in Lims, q \in Qs :
       FreeSlot(s) /\ ListStart(s, u, token, limited, q) /\ UNCHANGED hits
  \/ \E s \in Slots : ListCount(s)

\* the table holds earlier inserts
InitList == transactions \in SeedTables /\ InitExceptTable

\* One request at a time: lists by every user, creates by the writers.
NextList ==
  \/ ListSteps({1}, AllUsers, {"valid"}, {FALSE}, ListQueries)
  \/ ListSteps({1}, {"user-id"}, {"none"}, {FALSE, TRUE}, {[search |-> <<>>]})
  \/ CreateSteps({1}, {"user-id"}, {"valid"}, {FALSE}, {TeaBody, PayBody})
  \/ CreateSteps({1}, {"admin-id"}, {"valid"}, {FALSE}, {TeaBody})
  \/ InvalidateSteps({FALSE})

SpecList == InitList /\ [][NextList]_vars

---------------------------------------------------------------------------
(* GET /api/analytics/detailed over a table of earlier inserts *)

RentBody ==
  [type |-> "expense", amount |-> 5000, description |-> <<"R", "e", "n", "t">>,
   category |-> <<"H", "o", "m", "e">>, date |-> CurrentMonth - 8]

ReportSeedRows ==
  {[owner |-> "user-id", body |-> TeaBody],
   [owner |-> "user-id", body |-> LunchBody],
   [owner |-> "user-id", body |-> RentBody],
   [owner |-> "admin-id", body |-> TeaBody]}

InitReports == transactions \in SeedTablesOf(ReportSeedRows) /\ InitExceptTable

\* One request at a time on the in-process cache: the reports of two users
\* and creates of one of them.
NextReports ==
  \/ DetailedSteps({1}, Writers, {"valid"}, {FALSE}, {FALSE})
  \/ CreateSteps({1}, {"user-id"}, {"valid"}, {FALSE}, {RentBody, PayBody})
  \/ InvalidateSteps({FALSE})

SpecReports == InitReports /\ [][NextReports]_vars

---------------------------------------------------------------------------
(* Creates and updates with payloads the validators or the table reject *)

BlankBody == [CoffeeBody EXCEPT !.description = <<" ", " ">>]
BadTypeBody == [CoffeeBody EXCEPT !.type = "transfer"]
\* 100 characters, one of which is escaped to an entity of 5
WideBody ==
  [CoffeeBody EXCEPT !.category = [i \in 1..100 |-> IF i = 1 THEN "&" ELSE "a"]]
WriteBodies == {CoffeeBody, SalaryBody, ZeroBody, BlankBody, BadTypeBody, WideBody}

\* One request at a time: creates and updates by the writers with every
\* body, and overviews that fill the cache.
NextValid ==
  \/ CreateSteps({1}, Writers, {"valid"}, {FALSE}, WriteBodies)
  \/ UpdateSteps({1}, Writers, {"valid"}, {FALSE}, WriteBodies)
  \/ OverviewSteps({1}, {"user-id"}, {"valid"}, {FALSE}, {FALSE})
  \/ InvalidateSteps({FALSE})

SpecValid == Init /\ [][NextValid]_vars

---------------------------------------------------------------------------
(* The transactions view of the browser and GET /api/transactions *)

Undefined == [undefined |-> TRUE]

\* response.data[name] in JavaScript: undefined when the body has no such
\* property
Property(data, name) ==
  IF name \in DOMAIN data THEN [value |-> data[name]] ELSE Undefined

\* response.data.totalPages
ReadTotalPages(data) == Property(data, "totalPages")

\* params: { page, limit: 10, search }
ViewQueries == [page : 1..2, limit : {ViewLimit}, search : {<<>>, <<"t">>}]

\* fetchTransactions after its await: the three setters on success, the
\* toast alone on failure
FetchAnswer ==
  /\ resp # Null /\ "status" \in DOMAIN resp
  /\ resp.req.kind = "list"
  /\ client' = IF resp.status = 200
               THEN [client EXCEPT !.view =
                       [transactions |-> resp.data.transactions,
                        totalPages |-> ReadTotalPages(resp.data),
                        currentPage |-> resp.req.body.page,
                        of |-> resp]]
               ELSE client
  /\ resp' = Null
  /\ UNCHANGED <<transactions, nextId, memoryCache, redisStore, redisStatus,
                 now, ticks, reqs, ver, ackVer, lastOv, ref, users, hits>>

\* {totalPages > 1 && ...}: the Previous and Next controls are rendered
ShowsControls(view) ==
  view.totalPages # Undefined /\ view.totalPages.value > 1

\* One request at a time: the view of the user fetches pages, with and
\* without a token the server accepts, and the user creates.
NextView ==
  \/ ListSteps({1}, {"user-id"}, {"valid", "bad"}, {FALSE}, ViewQueries)
  \/ FetchAnswer
  \/ CreateSteps({1}, {"user-id"}, {"valid"}, {FALSE}, {TeaBody, PayBody})
  \/ InvalidateSteps({FALSE})

SpecView == InitList /\ [][NextView]_vars

---------------------------------------------------------------------------
(* Cache entries of one user while another user writes *)

\* req.query.timeRange is any string of the caller: here "overview:" and
\* the id of the user who writes
ForeignRange == <<"overview", "user-id">>

\* One request at a time on either backend: the admin reads the overview
\* and the detailed report, the user creates.
NextFrame ==
  \/ OverviewSteps({1}, {"admin-id"}, {"valid"}, {FALSE}, {FALSE})
  \/ DetailedStepsOver({1}, {"admin-id"}, {"valid"}, {FALSE}, {FALSE},
                       {<<"3months">>, ForeignRange})
  \/ CreateSteps({1}, {"user-id"}, {"valid"}, {FALSE}, {CoffeeBody})
  \/ InvalidateSteps({FALSE})
  \/ RedisSteps

SpecFrame == Init /\ [][NextFrame]_vars

---------------------------------------------------------------------------
(* Updates over a table of earlier inserts *)

UpdateSeedRows ==
  {[owner |-> "user-id", body |-> TeaBody],
   [owner |-> "admin-id", body |-> LunchBody]}

InitUpdates == transactions \in SeedTablesOf(UpdateSeedRows) /\ InitExceptTable

\* One request at a time: creates by the user, updates by the user and
\* the admin.
NextUpdates ==
  \/ CreateSteps({1}, {"user-id"}, {"valid"}, {FALSE}, {TeaBody})
  \/ UpdateSteps({1}, Writers, {"valid"}, {FALSE}, {PayBody, CoffeeBody})
  \/ InvalidateSteps({FALSE})

SpecUpdates == InitUpdates /\ [][NextUpdates]_vars

---------------------------------------------------------------------------
(* Roles changed in the users table while tokens are still valid *)

Roles == {"admin", "user", "read-only"}

\* UPDATE users SET role = ... issued on the database by its operator; no
\* route of the server writes the column after the insert
RoleChanged(u, role) ==
  /\ u \in DOMAIN users
  /\ users[u].role # role
  /\ users' = [users EXCEPT ![u].role = role]
  /\ resp' = Null
  /\ UNCHANGED <<transactions, nextId, memoryCache, redisStore, redisStatus,
                 now, ticks, reqs, ver, ackVer, lastOv, ref, client, hits>>

\* the roles a route passes to requireRole
RolesOfRoute(kind) == IF kind = "users" THEN {"admin"} ELSE {"admin", "user"}

\* One request at a time with tokens signed before any change of role:
\* writes and the users list by two users whose stored roles change.
NextRoles ==
  \/ CreateSteps({1}, {"user-id", "readonly-id"}, {"valid"}, {FALSE}, {CoffeeBody})
  \/ UpdateSteps({1}, {"user-id", "readonly-id"}, {"valid"}, {FALSE}, {SalaryBody})
  \/ DeleteSteps({1}, {"user-id", "readonly-id"}, {"valid"}, {FALSE})
  \/ \E u \in {"user-id", "readonly-id"} :
       UsersList("valid", u, FALSE) /\ UNCHANGED hits
  \/ InvalidateSteps({FALSE})
  \/ \E u \in {"user-id", "readonly-id"}, role \in Roles : RoleChanged(u, role)

SpecRoles == Init /\ [][NextRoles]_vars

---------------------------------------------------------------------------
(* The rate limiters *)

\* windowMs has passed: the count of the client at limiter l starts again
WindowEnd(l) ==
  /\ hits[l] > 0
  /\ hits' = [hits EXCEPT ![l] = 0]
  /\ resp' = Null
  /\ UNCHANGED <<transactions, nextId, memoryCache, redisStore, redisStatus,
                 now, ticks, reqs, ver, ackVer, lastOv, ref, users, client>>

LimitTokens == {"valid", "none"}

\* One request at a time by one client, the limiters counting: logins,
\* /auth/me, lists and overviews with and without a token.
NextLimits ==
  \/ Login(Used("auth"), [email |-> "user@demo.com",
                          password |-> Password("user123", 7)])
       /\ Hit("auth")
  \/ \E token \in LimitTokens : Me(token, "user-id")
  \/ \E token \in LimitTokens :
       /\ FreeSlot(1)
       /\ ListStart(1, "user-id", token, Used("api"), [search |-> <<>>])
       /\ Counted("api", authenticateToken(token, "user-id") = 0)
  \/ ListCount(1)
  \/ \E token \in LimitTokens :
       /\ FreeSlot(1)
       /\ OverviewStart(1, "user-id", token, Used("analytics"), FALSE)
       /\ Counted("analytics", authenticateToken(token, "user-id") = 0)
  \/ OverviewTotals(1)
  \/ OverviewTrend(1)
  \/ OverviewSet(1, FALSE)
  \/ \E l \in Limiters : WindowEnd(l)

SpecLimits == Init /\ [][NextLimits]_vars

---------------------------------------------------------------------------
(* The browser: AuthProvider of src/contexts/AuthContext.tsx *)

PermissionActions == {"read", "write", "admin"}

\* user objects a login, register or /auth/me response may hand to the
\* browser; the last one carries a role outside the three of the table
UserObjects ==
  {[id |-> u, role |-> RoleOf(u)] : u \in Users}
    \cup {[id |-> "guest-id", role |-> "guest"]}

\* variant: write is granted to every logged-in user
hasPermission_WriteForAll(user, action) ==
  IF user = Null THEN FALSE
  ELSE CASE action = "admin" -> user.role = "admin"
         [] action = "write" -> TRUE
         [] action = "read" -> TRUE
         [] OTHER -> FALSE

\* hasPermission(action), with the user of the provider state
hasPermission(user, action) ==
  IF user = Null THEN FALSE
  ELSE CASE action = "admin" -> user.role = "admin"
         [] action = "write" -> user.role = "admin" \/ user.role = "user"
         [] action = "read" -> TRUE
         [] OTHER -> FALSE

\* login / register / initAuth succeeded: setUser(userData), token stored
ClientSetUser(userData) ==
  /\ client' = [client EXCEPT !.user = userData,
                              !.token = [jwt |-> userData.id]]
  /\ UNCHANGED <<transactions, nextId, memoryCache, redisStore, redisStatus,
                 now, ticks, reqs, resp, ver, ackVer, lastOv, ref, users, hits>>

\* logout()
ClientLogout ==
  /\ client.user # Null
  /\ client' = [client EXCEPT !.user = Null, !.token = Null]
  /\ UNCHANGED <<transactions, nextId, memoryCache, redisStore, redisStatus,
                 now, ticks, reqs, resp, ver, ackVer, lastOv, ref, users, hits>>

\* a component calls hasPermission(action); the call and its result are
\* remembered
ClientCheck(action) ==
  /\ Len(client.checks) < MaxChecks
  /\ client' = [client EXCEPT !.checks =
                  Append(@, [user |-> client.user, action |-> action,
                             granted |-> hasPermission(client.user, action)])]
  /\ UNCHANGED <<transactions, nextId, memoryCache, redisStore, redisStatus,
                 now, ticks, reqs, resp, ver, ackVer, lastOv, ref, users, hits>>

---------------------------------------------------------------------------
(* The browser: initAuth, login, register and logout with their requests *)

\* what Home renders: the spinner while loading, the login form without a
\* user, else the dashboard
Home == IF client.loading THEN "spinner"
        ELSE IF client.user = Null THEN "LoginForm" ELSE "Dashboard"

SessionFrame ==
  UNCHANGED <<transactions, nextId, memoryCache, redisStore, redisStatus,
              now, ticks, reqs, resp, ver, ackVer, lastOv, ref, users, hits>>

\* variant: login and register set the user without storing the token
Succeeded_UserOnly(c, userData) == [c EXCEPT !.user = userData]

\* localStorage.setItem("token", token); setUser(userData)
Succeeded(c, userData) ==
  [c EXCEPT !.token = [jwt |-> userData.id], !.user = userData]

\* initAuth up to its await: without a stored token it ends at once
initAuthStart ==
  /\ client.initAuth = "start"
  /\ client' = IF client.token = Null
               THEN [client EXCEPT !.loading = FALSE, !.initAuth = "done",
                                   !.last = "initAuth:none"]
               ELSE [client EXCEPT !.initAuth = "me", !.last = "initAuth:get"]
  /\ SessionFrame

\* initAuth after GET /auth/me: setUser on success, removeItem on failure,
\* setLoading(false) on both
initAuthMe(ok, userData) ==
  /\ client.initAuth = "me"
  /\ client' = IF ok
               THEN [client EXCEPT !.user = userData, !.loading = FALSE,
                                   !.initAuth = "done", !.last = "initAuth:ok"]
               ELSE [client EXCEPT !.token = Null, !.loading = FALSE,
                                   !.initAuth = "done", !.last = "initAuth:failed"]
  /\ SessionFrame

\* the login form calls login or register: the request is sent
SessionCall(fn) ==
  /\ Home = "LoginForm"
  /\ Cardinality(client.calls) < MaxCalls
  /\ \E n \in 1..MaxCalls :
       /\ \A c \in client.calls : c.n # n
       /\ \A m \in 1..(n - 1) : \E c \in client.calls : c.n = m
       /\ client' = [client EXCEPT !.calls = @ \cup {[fn |-> fn, n |-> n]},
                                   !.last = "call"]
  /\ SessionFrame

\* login / register after the response: token stored and user set on
\* success, nothing but the error toast on failure
SessionAnswer(call, ok, userData) ==
  /\ call \in client.calls
  /\ LET c == [client EXCEPT !.calls = @ \ {call}]
     IN client' = IF ok
                  THEN [Succeeded(c, userData) EXCEPT !.last = "call:ok"]
                  ELSE [c EXCEPT !.last = "call:failed"]
  /\ SessionFrame

\* logout(), offered by the dashboard
logout ==
  /\ Home = "Dashboard"
  /\ client' = [client EXCEPT !.token = Null, !.user = Null, !.last = "logout"]
  /\ SessionFrame

\* the page is loaded again: a new provider, localStorage kept, the
\* responses of the old page are dropped
Reload ==
  /\ client.initAuth # "start"
  /\ client' = [NoSession EXCEPT !.token = client.token, !.last = "mount"]
  /\ SessionFrame

\* the user objects of the responses
SessionUsers == {[id |-> u, role |-> RoleOf(u)] : u \in Users}

NextSession ==
  \/ initAuthStart
  \/ \E ok \in BOOLEAN, userData \in SessionUsers : initAuthMe(ok, userData)
  \/ \E fn \in {"login", "register"} : SessionCall(fn)
  \/ \E call \in client.calls, ok \in BOOLEAN, userData \in SessionUsers :
       SessionAnswer(call, ok, userData)
  \/ logout
  \/ Reload
  \/ \E action \in {"write"} : ClientCheck(action)

SpecSession == Init /\ [][NextSession]_vars

NextClient ==
  \/ \E userData \in UserObjects : ClientSetUser(userData)
  \/ ClientLogout
  \/ \E action \in PermissionActions : ClientCheck(action)

SpecClient == Init /\ [][NextClient]_vars

---------------------------------------------------------------------------
(* Properties *)

\* the last step answered a request
Answered == resp # Null /\ "status" \in DOMAIN resp

\* the last step was a direct getFromCache
Got == resp # Null /\ "get" \in DOMAIN resp

AnsweredKind(kinds) == Answered /\ resp.req.kind \in kinds

\* the entry getFromCache(k) would return now, or Null
Visible(k) ==
  IF RedisReady
  THEN IF RedisLive(k) THEN redisStore[k] ELSE Null
  ELSE IF k \in DOMAIN memoryCache /\ memoryCache[k].expires > now
       THEN memoryCache[k] ELSE Null

AllCacheKeys == (DOMAIN memoryCache) \cup (DOMAIN redisStore)

\* u has a cache entry a get would return that was stored before write w
StaleVisible(u, w) ==
  \E k \in AllCacheKeys :
    /\ k[2] = u
    /\ Visible(k) # Null
    /\ Visible(k).storedVer < w

(* C1: an overview answered to a user was computed from a store state that  *)
(* includes every own write of that user whose success response had been    *)
(* sent before the overview request started.                                *)
Cex_C1 ==
  (AnsweredKind({"overview"}) /\ resp.status = 200)
    => resp.data.asOf >= resp.req.startAck

(* C7: an overview requested within the TTL of an earlier overview of the   *)
(* same user that stored its payload, with no write to that user's          *)
(* transactions running at any time since that earlier request started, is  *)
(* a cache hit carrying the same payload.                                   *)
Cex_C7 ==
  (/\ AnsweredKind({"overview"})
   /\ resp.status = 200
   /\ resp.req.prev # Null
   /\ now < resp.req.prev.at + TTL_SECONDS * 1000)
    => (resp.hit /\ resp.data.payload = resp.req.prev.payload)

WriteKinds == {"create", "update", "delete"}

(* C2: when an update or delete of a transaction owned by O is answered 200, *)
(* no cache entry of O stored before the write statement can be returned by *)
(* a get, whoever the caller is.                                            *)
Cex_C2 ==
  (/\ AnsweredKind({"update", "delete"})
   /\ resp.status = 200
   /\ resp.req.owner # Null)
    => ~StaleVisible(resp.req.owner.id, resp.req.wver)

(* C3: when a create by U is answered 201 and no cache command failed, no   *)
(* overview or analytics entry of U stored before the insert is still in    *)
(* the cache, whichever backend is in use.                                  *)
Cex_C3 ==
  (/\ AnsweredKind({"create"})
   /\ resp.status = 201
   /\ ~resp.req.cacheErr)
    => ~StaleVisible(resp.req.user, resp.req.wver)

(* C4: with a fixed backend, getFromCache(k) returns the value of the last  *)
(* setCache(k, v, ttl) when less than ttl seconds have passed since and no  *)
(* invalidateCache matching k came after it, and null otherwise.            *)
Thm_C4 ==
  Got =>
    LET k == resp.get
    IN IF k \in DOMAIN ref /\ now < ref[k].setAt + ref[k].ttl * 1000
       THEN resp.value = ref[k].data
       ELSE resp.value = Null

\* a get answered null for a key that was set, never invalidated and expired
Wit_C4 ==
  /\ Got
  /\ resp.value = Null
  /\ resp.get \in DOMAIN ref
  /\ now >= ref[resp.get].setAt + ref[resp.get].ttl * 1000

(* C5: whatever the availability of the external backend between commands,  *)
(* every get returns what one single TTL store would return.                *)
Cex_C5 == Got => resp.value = RefGet(resp.get)

\* what each analytics handler computes from the store as it is now
FreshPayload(r) ==
  IF r.kind = "overview"
  THEN OverviewData(OverviewQuery(r.user), TrendQuery(r.user, CurrentMonth - 6))
  ELSE DetailedData(TrendQuery(r.user, CurrentMonth - RangeMonths(r.range)),
                    CategoryQuery(r.user, CurrentMonth - RangeMonths(r.range)))

(* C6: a cache command that fails never fails the request: every request    *)
(* is answered 200 or 201; an analytics request that met a failing cache    *)
(* command is answered with the payload computed from the store, not from   *)
(* the cache; a create that met one is answered with the inserted row.      *)
Thm_C6 ==
  Answered =>
    /\ resp.status = IF resp.req.kind = "create" THEN 201 ELSE 200
    /\ (resp.req.cacheErr /\ resp.req.kind \in {"overview", "detailed"})
         => (~resp.hit /\ resp.data.payload = FreshPayload(resp.req))
    /\ (resp.req.cacheErr /\ resp.req.kind = "create")
         => (/\ resp.data.id \in DOMAIN transactions
             /\ transactions[resp.data.id] = resp.data)

\* an analytics request answered 200 over a non-empty store after one of its
\* cache commands failed
Wit_C6 ==
  /\ AnsweredKind({"overview", "detailed"})
  /\ resp.req.cacheErr
  /\ resp.status = 200
  /\ transactions # EmptyMap

(* C8: every payload answered to an analytics or overview request was       *)
(* computed for the same report, the same user and the same timeRange as    *)
(* the request.                                                             *)
Thm_C8 ==
  (AnsweredKind({"overview", "detailed"}) /\ resp.status = 200)
    => resp.data.origin = <<resp.req.kind, resp.req.user, resp.req.range>>

\* a detailed request served from the cache while the cache holds a
\* different payload of the same report under another key
Wit_C8 ==
  /\ AnsweredKind({"detailed"})
  /\ resp.hit
  /\ \E k \in DOMAIN memoryCache :
       /\ k[1] = "analytics"
       /\ k # getCacheKey("analytics", resp.req.user, resp.req.range)
       /\ memoryCache[k].expires > now
       /\ memoryCache[k].data.payload # resp.data.payload

(* C9: a write request (create, update, delete) carrying a valid token of a *)
(* read-only principal is answered 403, whatever its body, its target id    *)
(* and its rate-limit state, in a step that changes neither the             *)
(* transactions nor either cache backend.                                   *)
Thm_C9 ==
  [][(/\ resp'# Null
      /\ "status" \in DOMAIN resp'
      /\ resp'.req.kind \in WriteKinds
      /\ resp'.req.token = "valid"
      /\ RoleOf(resp'.req.user) = "read-only")
       => (/\ resp'.status = 403
           /\ UNCHANGED <<transactions, nextId, memoryCache, redisStore>>)]_vars

\* a read-only principal refused an update with an invalid body while the
\* store and the cache hold data
Wit_C9 ==
  /\ AnsweredKind({"update"})
  /\ resp.req.token = "valid"
  /\ RoleOf(resp.req.user) = "read-only"
  /\ resp.req.raw = ZeroBody
  /\ resp.status = 403
  /\ transactions # EmptyMap
  /\ memoryCache # EmptyMap

(* C10: an update or delete with a valid token of a writer, a valid body    *)
(* and no rate limiting is answered 200 when the transaction exists and the *)
(* caller owns it or is admin, and 404 in every other case; a 404 leaves    *)
(* the transactions unchanged and a 200 has applied the write.              *)
Thm_C10 ==
  [][(/\ resp' # Null
      /\ "status" \in DOMAIN resp'
      /\ resp'.req.kind \in {"update", "delete"}
      /\ resp'.req.token = "valid"
      /\ RoleOf(resp'.req.user) \in {"admin", "user"}
      /\ ~resp'.req.limited
      /\ (resp'.req.kind = "update" => ValidBody(resp'.req.raw)))
       => (/\ resp'.status \in {200, 404}
           /\ resp'.status = 200 <=> resp'.req.allowed
           /\ resp'.status = 404 => UNCHANGED transactions
           /\ (resp'.status = 200 /\ resp'.req.kind = "delete")
                => resp'.req.id \notin DOMAIN transactions'
           /\ (resp'.status = 200 /\ resp'.req.kind = "update")
                => (/\ resp'.req.id \in DOMAIN transactions'
                    /\ transactions'[resp'.req.id] = resp'.data
                    /\ resp'.data.amount = resp'.req.raw.amount))]_vars

\* a user refused with 404 on a transaction that exists and belongs to
\* another user
Wit_C10 ==
  /\ AnsweredKind({"update", "delete"})
  /\ resp.status = 404
  /\ RoleOf(resp.req.user) = "user"
  /\ resp.req.id \in DOMAIN transactions
  /\ transactions[resp.req.id].user_id # resp.req.user

(* C11: an update or delete answered 200 found its transaction in the store *)
(* when its own write statement ran (so an update's response carries the    *)
(* updated row, and of two deletes of one id at most one is answered 200).  *)
Cex_C11 ==
  (AnsweredKind({"update", "delete"}) /\ resp.status = 200)
    => resp.req.owner # Null

\* the permission table: role -> permitted actions
PermissionTable ==
  ("admin" :> {"read", "write", "admin"})
    @@ ("user" :> {"read", "write"})
    @@ ("read-only" :> {"read"})

(* C12: every hasPermission call made while a user with role admin, user or *)
(* read-only is logged in answers what the permission table says, and every *)
(* call made with no user logged in is denied.                              *)
Thm_C12 ==
  \A i \in DOMAIN client.checks :
    LET c == client.checks[i]
    IN /\ c.user = Null => ~c.granted
       /\ (c.user # Null /\ c.user.role \in DOMAIN PermissionTable)
            => (c.granted <=> c.action \in PermissionTable[c.user.role])

\* a read-only user was denied write after a call with no user was denied
Wit_C12 ==
  /\ Len(client.checks) = 2
  /\ client.checks[1].user = Null
  /\ ~client.checks[1].granted
  /\ client.checks[2].user # Null
  /\ client.checks[2].user.role = "read-only"
  /\ client.checks[2].action = "write"
  /\ ~client.checks[2].granted

(* C13: every hasPermission call made while the logged-in user carries a    *)
(* role that is none of admin, user, read-only is denied.                   *)
Cex_C13 ==
  \A i \in DOMAIN client.checks :
    LET c == client.checks[i]
    IN (c.user # Null /\ c.user.role \notin DOMAIN PermissionTable)
         => ~c.granted

\* C14: every request to a protected endpoint that carries no token, a token
\* with a bad signature, an expired token, or a token of a user who is not in
\* the users table is answered 401
ProtectedKinds == {"me", "users"}
Cex_C14 ==
  (AnsweredKind(ProtectedKinds)
     /\ (resp.req.token # "valid" \/ resp.req.user \notin DOMAIN users))
    => resp.status = 401

\* C15: a register request that passes the rate limiter and the validators is
\* answered either 201 or the 400 conflict response, whatever other register
\* requests are in flight
Cex_C15 ==
  (AnsweredKind({"register"}) /\ ~resp.req.limited
     /\ ValidRegisterBody(resp.req.raw))
    => \/ resp.status = 201
       \/ resp.status = 400 /\ "error" \in DOMAIN resp.data
                            /\ resp.data.error = "User already exists"

HashFree(o) == "password" \notin DOMAIN o

\* C16: no response carries a password hash; the user objects of register
\* and login carry id, name, email, role and creation time, that of /auth/me
\* id, name, email and role, those of /users additionally the transaction
\* count
Thm_C16 ==
  Answered =>
    /\ HashFree(resp.data)
    /\ "user" \in DOMAIN resp.data =>
         /\ HashFree(resp.data.user)
         /\ DOMAIN resp.data.user \subseteq
              {"id", "name", "email", "role", "createdAt"}
    /\ "users" \in DOMAIN resp.data =>
         \A o \in resp.data.users :
           DOMAIN o = {"id", "name", "email", "role", "createdAt",
                       "transactionCount"}
    /\ "token" \in DOMAIN resp.data => HashFree(resp.data.token)

\* a login succeeded for a user whose row holds a hash
Wit_C16 ==
  /\ AnsweredKind({"login"})
  /\ resp.status = 200
  /\ users[resp.data.user.id].password = Hash(resp.req.body.password)

\* C17: every user created by register has role user, no step changes or
\* removes an existing row of the users table, and the admins are the ones
\* the database initialization created
Admins == {id \in DOMAIN users : users[id].role = "admin"}
Thm_C17 ==
  /\ [](Admins = {"admin-id"}
        /\ \A id \in DOMAIN users \ Users : users[id].role = "user")
  /\ [][/\ \A id \in DOMAIN users :
             id \in DOMAIN users' /\ users'[id] = users[id]
        /\ \A id \in DOMAIN users' \ DOMAIN users :
             users'[id].role = "user"]_vars

\* a register request whose body asked for the admin role created a user
Wit_C17 ==
  /\ AnsweredKind({"register"})
  /\ resp.status = 201
  /\ "role" \in DOMAIN resp.req.raw /\ resp.req.raw.role = "admin"
  /\ resp.data.user.id \in DOMAIN users
  /\ users[resp.data.user.id].role = "user"

\* a list request was answered 200
Listed == AnsweredKind({"list"}) /\ resp.status = 200

\* the positions of the response at which the row with this id appears
PositionsOf(id) ==
  {i \in DOMAIN resp.data.transactions : resp.data.transactions[i].id = id}

\* the list is unfiltered, asks for page 1 and its page size is at least
\* the number of the caller's rows
WholeList ==
  /\ QuerySearch(resp.req.body) = <<>>
  /\ QueryPage(resp.req.body) = 1
  /\ QueryLimit(resp.req.body) >= Cardinality(RowsOf(resp.req.user))

\* C18: a row inserted by a create of user U appears exactly once, with the
\* columns as stored, in every whole list of U, and in no list of another
\* user
Thm_C18 ==
  Listed =>
    \A id \in DOMAIN transactions :
      id >= 1 =>
        /\ transactions[id].user_id # resp.req.user => PositionsOf(id) = {}
        /\ (transactions[id].user_id = resp.req.user /\ WholeList) =>
             /\ Cardinality(PositionsOf(id)) = 1
             /\ \A i \in PositionsOf(id) :
                  resp.data.transactions[i] = ListColumns(transactions[id])

\* a whole list of the creator holds the created row among earlier ones
Wit_C18 ==
  /\ Listed
  /\ WholeList
  /\ 1 \in DOMAIN transactions
  /\ transactions[1].user_id = resp.req.user
  /\ Cardinality(PositionsOf(1)) = 1
  /\ Len(resp.data.transactions) >= 2

\* the filtered set of the answered list request, in the order of the query
Matching == ListWhere(resp.req.user, QuerySearch(resp.req.body))
Ordered == OrderBy(Matching)

\* C19: for N matching rows and page size p >= 1 the response has
\* totalCount = N and totalPages = ceil(N / p); page k holds the rows at
\* positions (k-1)*p+1 .. k*p of the ordered filtered set, in that order; a
\* page after the last one is answered 200 with no rows; hasNext holds
\* exactly when k < totalPages and hasPrev exactly when k > 1
Thm_C19 ==
  Listed =>
    LET N == Cardinality(Matching)
        p == QueryLimit(resp.req.body)
        k == QueryPage(resp.req.body)
        items == resp.data.transactions
        pg == resp.data.pagination
    IN /\ pg.totalCount = N
       /\ pg.totalPages >= 0
       /\ pg.totalPages * p >= N
       /\ (pg.totalPages - 1) * p < N
       /\ DOMAIN items = {i \in 1..p : (k - 1) * p + i <= N}
       /\ \A i \in DOMAIN items :
            items[i] = ListColumns(Ordered[(k - 1) * p + i])
       /\ \A i, j \in DOMAIN items :
            i < j =>
              \/ items[i].date > items[j].date
              \/ /\ items[i].date = items[j].date
                 /\ items[i].created_at > items[j].created_at
       /\ k > pg.totalPages => items = <<>>
       /\ pg.hasNext = (k < pg.totalPages)
       /\ pg.hasPrev = (k > 1)
       /\ pg.currentPage = k

\* the second and last page of three rows, two to a page
Wit_C19 ==
  /\ Listed
  /\ Cardinality(Matching) = 3
  /\ QueryLimit(resp.req.body) = 2
  /\ QueryPage(resp.req.body) = 2
  /\ Len(resp.data.transactions) = 1
  /\ resp.data.pagination.hasPrev
  /\ ~resp.data.pagination.hasNext

\* the text contains the search string, letter case ignored
ContainsText(text, search) ==
  \E i \in 0..(Len(text) - Len(search)) :
    \A j \in 1..Len(search) : Lower(text[i + j]) = Lower(search[j])

\* the caller's rows whose description or category contains the search string
Containing(u, search) ==
  {t \in RowsOf(u) :
     ContainsText(t.description, search) \/ ContainsText(t.category, search)}

\* C20: a list with a non-empty search returns only rows of the caller whose
\* description or category contains the search string, letter case ignored,
\* and totalCount is the number of those rows
Cex_C20 ==
  (Listed /\ QuerySearch(resp.req.body) # <<>>) =>
    LET found == Containing(resp.req.user, QuerySearch(resp.req.body))
    IN /\ resp.data.pagination.totalCount = Cardinality(found)
       /\ \A i \in DOMAIN resp.data.transactions :
            \E t \in found : resp.data.transactions[i] = ListColumns(t)

\* the totals of an overview payload are those of the user's rows
TotalsOf(payload, u) ==
  /\ payload.balance = payload.totalIncome - payload.totalExpenses
  /\ payload.totalIncome = SumAmount({t \in RowsOf(u) : t.type = "income"})
  /\ payload.totalExpenses = SumAmount({t \in RowsOf(u) : t.type = "expense"})
  /\ payload.transactionCount = Cardinality(RowsOf(u))
  /\ RowsOf(u) = {} =>
       /\ payload.totalIncome = 0 /\ payload.totalExpenses = 0
       /\ payload.balance = 0 /\ payload.transactionCount = 0

\* C21: every payload GET /api/analytics/overview answers, computed or
\* served from the cache, has balance = totalIncome - totalExpenses, the
\* totals of the user's income and expense rows, and the number of the
\* user's rows
Cex_C21 ==
  (AnsweredKind({"overview"}) /\ resp.status = 200)
    => TotalsOf(resp.data.payload, resp.req.user)

\* the expense rows of the answered report's user inside its window
WindowExpenses ==
  {t \in RowsOf(resp.req.user) :
     /\ t.type = "expense"
     /\ t.date >= CurrentMonth - RangeMonths(resp.req.range)}

RECURSIVE SumNum(_)
SumNum(bd) ==
  IF bd = <<>> THEN 0 ELSE Head(bd).percentage.num + SumNum(Tail(bd))

\* C22: categoryBreakdown has one entry per category of the user's expense
\* rows inside the window, with their sum and number, by amount descending;
\* each percentage is amount / totalExpenses * 100, the percentages sum to
\* 100 when totalExpenses > 0 and are 0 when it is 0
Thm_C22 ==
  (AnsweredKind({"detailed"}) /\ resp.status = 200) =>
    LET bd == resp.data.payload.categoryBreakdown
        S == WindowExpenses
        total == SumAmount(S)
    IN /\ {bd[i].category : i \in DOMAIN bd} = {t.category : t \in S}
       /\ Len(bd) = Cardinality({t.category : t \in S})
       /\ \A i \in DOMAIN bd :
            /\ bd[i].amount = SumAmount({t \in S : t.category = bd[i].category})
            /\ bd[i].count = Cardinality({t \in S : t.category = bd[i].category})
            /\ bd[i].percentage.den > 0
            /\ IF total > 0
               THEN bd[i].percentage = Ratio(bd[i].amount * 100, total)
               ELSE bd[i].percentage.num = 0
       /\ \A i, j \in DOMAIN bd : i < j => bd[i].amount >= bd[j].amount
       /\ total > 0 => SumNum(bd) = 100 * total

\* a report with two categories of different amounts, while the user also
\* has an income row inside the window
Wit_C22 ==
  /\ AnsweredKind({"detailed"})
  /\ resp.status = 200
  /\ Len(resp.data.payload.categoryBreakdown) = 2
  /\ resp.data.payload.categoryBreakdown[1].amount
       > resp.data.payload.categoryBreakdown[2].amount
  /\ \E t \in RowsOf(resp.req.user) :
       t.type = "income" /\ t.date >= CurrentMonth - RangeMonths(resp.req.range)

\* the limit a route falls under: register and login the auth limit, the
\* analytics routes theirs, every other route the general one
LimitOf(kind) ==
  CASE kind \in {"register", "login"} -> "auth"
    [] kind \in {"overview", "detailed"} -> "analytics"
    [] OTHER -> "api"

\* the request just answered arrived after its window was used up
ArrivedOverLimit ==
  IF resp.req.kind = "me" THEN Used("api") ELSE resp.req.limited

\* C23: a request that arrives after the client's window for its route was
\* used up is answered 429
Cex_C23 == (Answered /\ ArrivedOverLimit) => resp.status = 429

\* the fields of a payload that break a constraint of the claim
Broken(b) ==
  {f \in {"type", "amount", "description", "category"} :
     \/ f = "type" /\ b.type \notin {"income", "expense"}
     \/ f = "amount" /\ b.amount <= 0
     \/ f = "description" /\ (Trim(b.description) = <<>> \/ Len(Trim(b.description)) > 255)
     \/ f = "category" /\ (Trim(b.category) = <<>> \/ Len(Trim(b.category)) > 100)}

\* C24: every stored transaction has a positive amount, a type of the two,
\* a non-empty description of at most 255 and category of at most 100
\* characters, and an owner in the users table; a create or update whose
\* payload breaks one of these is answered 400 with the broken fields as
\* details, and the step that answers 400 leaves the table and the cache
\* as they are
Thm_C24 ==
  /\ [](\A t \in Rows :
          /\ t.amount > 0
          /\ t.type \in {"income", "expense"}
          /\ Len(t.description) \in 1..255
          /\ Len(t.category) \in 1..100
          /\ t.user_id \in DOMAIN users)
  /\ []((AnsweredKind({"create", "update"}) /\ Broken(resp.req.raw) # {}) =>
          /\ resp.status = 400
          /\ resp.data.details = Broken(resp.req.raw))
  /\ [][(resp' # Null /\ "status" \in DOMAIN resp' /\ resp'.status = 400) =>
          UNCHANGED <<transactions, memoryCache, redisStore>>]_vars

\* an update with a payload of amount 0 was answered 400 while the table
\* holds a row and the cache an entry
Wit_C24 ==
  /\ AnsweredKind({"update"})
  /\ resp.status = 400
  /\ resp.req.raw.amount = 0
  /\ Rows # {}
  /\ DOMAIN memoryCache # {}

\* the five fields a client submits and reads back
SubmittedFields(t) ==
  [type |-> t.type, amount |-> t.amount, description |-> t.description,
   category |-> t.category, date |-> t.date]

\* C25: the transaction a create returns with 201 has type, amount,
\* description, category and date equal to the values of the submitted
\* payload
Cex_C25 ==
  (AnsweredKind({"create"}) /\ resp.status = 201) =>
    SubmittedFields(resp.data) = SubmittedFields(resp.req.raw)

RoleCheckedKinds == {"create", "update", "delete", "users"}

\* the request r touches a stored record of another user
OfAnother(r) ==
  /\ r.kind \in {"update", "delete"}
  /\ r.id \in DOMAIN transactions
  /\ transactions[r.id].user_id # r.user

\* the handler of r was entered: the stored role passes the role check, and
\* reaches another user's record only as admin
EnteredByStoredRole(r) ==
  /\ users[r.user].role \in RolesOfRoute(r.kind)
  /\ (OfAnother(r) => users[r.user].role = "admin")

\* r was answered st by the step that received it: 403 exactly when the
\* stored role fails the role check, and never 404 for an admin on an
\* existing record
AnsweredByStoredRole(r, st) ==
  /\ (st = 403) <=> (users[r.user].role \notin RolesOfRoute(r.kind))
  /\ ((st = 404 /\ OfAnother(r)) => users[r.user].role # "admin")

\* C26: the role check of a request uses the role stored for the user when
\* the token is verified, not the role claim of the token: a request with a
\* valid token is answered 403 exactly when the stored role is not among
\* the roles of its route, and an update or delete reaches another user's
\* record exactly when the stored role is admin
Thm_C26 ==
  [][/\ \A s \in Slots :
          (reqs[s] = Idle /\ reqs'[s] # Idle /\ reqs'[s].token = "valid")
            => EnteredByStoredRole(reqs'[s])
     /\ (/\ resp' # Null /\ "status" \in DOMAIN resp'
         /\ reqs' = reqs
         /\ resp'.req.kind \in RoleCheckedKinds
         /\ resp'.req.token = "valid")
           => AnsweredByStoredRole(resp'.req, resp'.status)]_vars

\* a create by the user whose token was signed with role user is answered
\* 403 after the stored role became read-only
Wit_C26 ==
  /\ AnsweredKind({"create"})
  /\ resp.status = 403
  /\ resp.req.token = "valid"
  /\ RoleOf(resp.req.user) = "user"
  /\ users[resp.req.user].role = "read-only"

\* C27: an update that changes the table changes one row, and of that row
\* only type, amount, description, category and date: its id, user_id and
\* created_at stay, also when the caller is an admin and the row another
\* user's; every other row and the users table stay as they are
Thm_C27 ==
  [][\A s \in Slots :
       (reqs[s] # Idle /\ reqs[s].kind = "update" /\ transactions' # transactions) =>
         /\ DOMAIN transactions' = DOMAIN transactions
         /\ \A i \in DOMAIN transactions :
              IF i = reqs[s].id
              THEN /\ transactions'[i].id = transactions[i].id
                   /\ transactions'[i].user_id = transactions[i].user_id
                   /\ transactions'[i].created_at = transactions[i].created_at
                   /\ SubmittedFields(transactions'[i]) = SubmittedFields(reqs[s].body)
              ELSE transactions'[i] = transactions[i]
         /\ users' = users]_vars

\* an update by the admin was answered 200 for a row of another user, and
\* the table holds a second row
Wit_C27 ==
  /\ AnsweredKind({"update"})
  /\ resp.status = 200
  /\ resp.req.user = "admin-id"
  /\ resp.data.user_id = "user-id"
  /\ SubmittedFields(resp.data) = SubmittedFields(resp.req.body)
  /\ Cardinality(DOMAIN transactions) > 1

\* the cache keys of user v in the map m: overview:v and analytics:v:*
KeysOfUser(m, v) ==
  {k \in DOMAIN m : Len(k) >= 2 /\ k[1] \in {"overview", "analytics"} /\ k[2] = v}

\* C28: the invalidation steps of a write by user U leave every cache
\* entry of every other user V in place, in the in-process map and in the
\* external store
Cex_C28 ==
  [][\A s \in Slots :
       (reqs[s] # Idle /\ reqs[s].pc \in {"invAnalytics", "invOverview"}) =>
         \A v \in Users \ {InvalidatedUser(reqs[s])} :
           /\ KeysOfUser(memoryCache, v) \subseteq DOMAIN memoryCache'
           /\ KeysOfUser(redisStore, v) \subseteq DOMAIN redisStore']_vars

\* C29: in the browser a user is set only while a token is stored; after
\* logout and after a failed /auth/me of initAuth the user is null and no
\* token is stored; a failed login or register leaves user and stored token
\* as they were; and once initAuth has finished, loading is false
Thm_C29 ==
  /\ [](client.user # Null => client.token # Null)
  /\ [](client.last \in {"logout", "initAuth:failed"} =>
          (client.user = Null /\ client.token = Null))
  /\ [][(client' # client /\ client'.last = "call:failed") =>
          (client'.user = client.user /\ client'.token = client.token)]_vars
  /\ [](client.initAuth = "done" => ~client.loading)

\* a login failed while the user of an earlier login is set and its token
\* stored
Wit_C29 ==
  /\ client.last = "call:failed"
  /\ client.user # Null
  /\ client.token = [jwt |-> client.user.id]
  /\ client.initAuth = "done"

\* C30: after fetchTransactions read a 200 response, the totalPages of the
\* view is the totalPages the server computed for that request, currentPage
\* is the page asked for, and the Previous and Next controls are rendered
\* exactly when the server reports more than one page
Cex_C30 ==
  client.view.of # Null =>
    /\ client.view.totalPages =
         [value |-> client.view.of.data.pagination.totalPages]
    /\ client.view.currentPage = client.view.of.req.body.page
    /\ ShowsControls(client.view) <=>
         (client.view.of.data.pagination.totalPages > 1)

===========================================================================
